---- MODULE Spec2Model ----
(***************************************************************************)
(* Model of the Lanorx tracking SDK core (src/src/core/client.ts): the     *)
(* device-identity store kept in localStorage, the per-project submission  *)
(* record, the LanorxClient constructor and the two asynchronous network   *)
(* operations submitEmail and trackEvent with their awaits.                *)
(***************************************************************************)
EXTENDS Integers, FiniteSets, Sequences, TLC

(***************************************************************************)
(* Bounds of the model.                                                    *)
(***************************************************************************)
\* The clock advances in steps of TickMs milliseconds, at most MaxTicks times.
MaxTicks == 2
TickMs == 900000
\* Number of LanorxClient instances that may be constructed.
NumClients == 2
\* Number of submitEmail/trackEvent calls that may be started in one behaviour.
MaxCalls == 2
\* Number of requests in flight when only the requests are followed.
MaxPending == 1
\* Number of clients when only the settling of calls is followed.
MaxSettleClients == 1

(***************************************************************************)
(* Program constants.                                                      *)
(***************************************************************************)
DEVICE_ID_KEY == "lanorx_device_id"
EMAIL_SUBMITTED_KEY == "lanorx_email_submitted"
DEVICE_ID_TTL == 30 * 60 * 1000
DEFAULT_API_URL == "https://www.lanorx.com"

(***************************************************************************)
(* JavaScript values.  A value is a record tagged with its typeof; objects *)
(* carry their own properties as a function from property names.           *)
(***************************************************************************)
Undefined == [t |-> "undefined"]
Null == [t |-> "null"]
Str(s) == [t |-> "string", v |-> s]
Num(n) == [t |-> "number", n |-> n]
Bool(b) == [t |-> "boolean", b |-> b]
Obj(f) == [t |-> "object", f |-> f]
\* The n-th string drawn by generateDeviceId (a v4-UUID-shaped token).
Uuid(n) == [t |-> "string", uuid |-> n]
\* The string new Date(ms).toISOString().
IsoString(ms) == [t |-> "string", iso |-> ms]

\* Reading a property: o.name. Reading from null/undefined is a TypeError,
\* which callers test with Nullish before reading.
Nullish(x) == x.t \in {"null", "undefined"}
Prop(x, name) ==
  IF x.t = "object" /\ name \in DOMAIN x.f THEN x.f[name] ELSE Undefined

\* ToBoolean(x) is false.
Falsy(x) ==
  \/ Nullish(x)
  \/ x = Str("")
  \/ x = Bool(FALSE)
  \/ x = Num(0)

\* a || b
OrElse(a, b) == IF Falsy(a) THEN b ELSE a

\* The relational comparison now < x of a number with any value: false
\* unless x is a number greater than now (undefined converts to NaN).
LessThan(now, x) == x.t = "number" /\ now < x.n

\* JSON.stringify of an object: properties whose value is undefined are
\* left out; the result is a text.
JSON_stringify(f) ==
  [fmt |-> "json",
   val |-> Obj([k \in {j \in DOMAIN f : f[j] # Undefined} |-> f[k]])]

\* A text that is not JSON (a bare legacy identifier, an HTML page, ...).
RawText(s) == [fmt |-> "raw", raw |-> s]
\* The JSON text null.
NullText == [fmt |-> "json", val |-> Null]

\* JSON.parse: the value, or a SyntaxError.
JSON_parse(text) ==
  IF text.fmt = "json" THEN [ok |-> TRUE, val |-> text.val]
  ELSE [ok |-> FALSE, val |-> Undefined]

\* A property value that refers back to the object holding it.
Cycle == [t |-> "cycle"]
\* JSON.stringify(v) returns a text: it throws a TypeError on a circular
\* structure.
RECURSIVE Serialisable(_)
Serialisable(v) ==
  /\ v # Cycle
  /\ v.t = "object" /\ "f" \in DOMAIN v
       => \A k \in DOMAIN v.f : Serialisable(v.f[k])

\* { ...a, ...b }: own properties of b override those of a, also when the
\* overriding value is undefined.
Spread(a, b) ==
  [k \in DOMAIN a \cup DOMAIN b |-> IF k \in DOMAIN b THEN b[k] ELSE a[k]]

(***************************************************************************)
(* Inputs.                                                                 *)
(***************************************************************************)
ProjectIds == {"p1", "p2"}
Emails == {"a@example.com", "b@example.com"}

\* Configurations passed to the constructor: three valid ones and the four
\* ways of leaving out or emptying a required field.
ValidConfigs ==
  { [projectId |-> Str("p1"), apiKey |-> Str("k1")],
    [projectId |-> Str("p2"), apiKey |-> Str("k2"),
     apiUrl |-> Str("https://custom.example")],
    [projectId |-> Str("p1"), apiKey |-> Str("k1"), apiUrl |-> Undefined] }
InvalidConfigs ==
  { [apiKey |-> Str("k1")],
    [projectId |-> Str(""), apiKey |-> Str("k1")],
    [projectId |-> Str("p1")],
    [projectId |-> Str("p1"), apiKey |-> Str("")] }
Configs == ValidConfigs \cup InvalidConfigs

(***************************************************************************)
(* localStorage: a function from keys to texts; NoItem is what getItem     *)
(* returns for a key that is not set.                                      *)
(***************************************************************************)
NoItem == [fmt |-> "none"]
DeviceKey == <<DEVICE_ID_KEY>>
\* `${EMAIL_SUBMITTED_KEY}_${projectId}`
EmailKey(projectId) == <<EMAIL_SUBMITTED_KEY, projectId>>
StorageKeys == {DeviceKey} \cup {EmailKey(p) : p \in ProjectIds}

\* How the browsing context provides storage, fixed for the page lifetime:
\*   "ok"      localStorage works
\*   "full"    setItem throws (quota), reads and removals work
\*   "denied"  every access throws (privacy mode)
\*   "absent"  typeof window or typeof localStorage is "undefined"
StorageModes == {"ok", "full", "denied", "absent"}

VARIABLES
  clock,         \* Date.now(), in ms since the start of the behaviour
  storageMode,   \* how storage behaves, one of StorageModes
  localStorage,  \* the contents of window.localStorage
  nextId,        \* number of identifiers generateDeviceId has drawn
  clients,       \* the LanorxClient instances: config and deviceId
  calls,         \* the submitEmail/trackEvent calls started so far
  adapters,      \* the state of the React, Vue, Svelte and Angular adapters
  documentReferrer, \* document.referrer of the page
  userAgent,     \* navigator.userAgent, or undefined without navigator
  succeeded,     \* history: project ids with a submitEmail that returned success
  lastOp         \* the operation the last step ran and what it returned

vars == <<clock, storageMode, localStorage, nextId, clients, calls,
          adapters, documentReferrer, userAgent, succeeded, lastOp>>

(***************************************************************************)
(* Page context.                                                           *)
(***************************************************************************)
\* What document.referrer may hold: the empty string on a page reached
\* directly, or the address of the referring page.
Referrers == {Str(""), Str("https://ref.example/")}

\* getReferrer(): document.referrer || null.  A context without document
\* gives the same null as an empty referrer.
getReferrer(referrer) == OrElse(referrer, Null)

\* A user agent string, as the sequence of the product names it contains;
\* the empty sequence is the empty string.
Ua(tokens) == [t |-> "string", tokens |-> tokens]
\* The user agent of a desktop browser.
DesktopUserAgent == Ua(<<"Mozilla">>)

\* String.prototype.toLowerCase on a product name.
toLowerCase(token) ==
  CASE token = "Mozilla" -> "mozilla"
    [] token = "iPad" -> "ipad"
    [] token = "Android" -> "android"
    [] token = "Mobile" -> "mobile"
    [] token = "Windows" -> "windows"
    [] token = "Phone" -> "phone"
    [] token = "Touch" -> "touch"
    [] token = "iPhone" -> "iphone"
    [] token = "Kindle" -> "kindle"
    [] token = "Opera" -> "opera"
    [] token = "IEMobile" -> "iemobile"
    [] OTHER -> token

\* The lower-cased product name contains the word as a substring.
Includes(lower, word) ==
  \/ lower = word
  \/ <<lower, word>> \in { <<"iemobile", "mobile">>,
                           <<"iphone", "phone">>,
                           <<"smartphone", "phone">> }

\* The tablet pattern of getDeviceType tested on the lower-cased user agent:
\* a tablet word, or android with no mobile after it, or windows with no
\* phone after it and touch after it.  (The look-ahead behind puffin looks
\* for upper-case letters in lower-cased text and so never fails.)
TabletWords == {"ipad", "tablet", "kindle", "playbook", "silk", "puffin"}
MatchesTablet(ua) ==
  LET n == Len(ua.tokens)
      lower == [i \in 1..n |-> toLowerCase(ua.tokens[i])]
  IN \/ \E i \in 1..n, w \in TabletWords : Includes(lower[i], w)
     \/ \E i \in 1..n :
          /\ Includes(lower[i], "android")
          /\ \A j \in (i + 1)..n : ~Includes(lower[j], "mobile")
     \/ \E i \in 1..n :
          /\ Includes(lower[i], "windows")
          /\ \A j \in (i + 1)..n : ~Includes(lower[j], "phone")
          /\ \E j \in (i + 1)..n : Includes(lower[j], "touch")

\* The mobile pattern of getDeviceType tested on the lower-cased user agent.
MobileWords ==
  {"mobile", "iphone", "ipod", "android", "blackberry", "opera", "mini",
   "windows ce", "palm", "smartphone", "iemobile", "ipad", "android 3.0",
   "xoom", "sch-i800", "playbook", "tablet", "kindle"}
MatchesMobile(ua) ==
  \E i \in 1..Len(ua.tokens), w \in MobileWords :
    Includes(toLowerCase(ua.tokens[i]), w)

\* A getDeviceType that tests the mobile pattern first.
getDeviceTypeMobileFirst(ua) ==
  IF ua = Undefined THEN Null
  ELSE IF MatchesMobile(ua) THEN Str("mobile")
  ELSE IF MatchesTablet(ua) THEN Str("tablet")
  ELSE Str("desktop")

\* getDeviceType(): null without navigator, else tablet, mobile or desktop,
\* the tablet pattern being tested first.
getDeviceType(ua) ==
  IF ua = Undefined THEN Null
  ELSE IF MatchesTablet(ua) THEN Str("tablet")
  ELSE IF MatchesMobile(ua) THEN Str("mobile")
  ELSE Str("desktop")

\* getUserAgent(): navigator.userAgent || null.
getUserAgent(ua) ==
  IF ua = Undefined \/ ua.tokens = <<>> THEN Null ELSE ua

(***************************************************************************)
(* Identity store.                                                         *)
(***************************************************************************)
\* generateDeviceId: 122 random bits behind a fixed UUID layout.  The n-th
\* draw is modelled as the n-th token of a collision-free sequence.
generateDeviceId(n) == Uuid(n)

\* The record { deviceId, expiresAt } as stored under DEVICE_ID_KEY.
StoredDeviceId(deviceId, expiresAt) ==
  JSON_stringify([deviceId |-> deviceId, expiresAt |-> Num(expiresAt)])

\* A getOrCreateDeviceId that hands out the identifier it generated also when
\* it could not be stored, and generates one when there is no storage.
getOrCreateDeviceIdUnstored(ls, mode, now, n) ==
  IF mode \in {"absent", "denied"}
  THEN [ret |-> Uuid(n + 1), ls |-> ls, io |-> {}, drew |-> TRUE]
  ELSE
    LET stored == ls[DeviceKey]
        present == stored # NoItem
        parsed == JSON_parse(stored)
        parseError == present /\ (~parsed.ok \/ Nullish(parsed.val))
        unexpired == /\ present
                     /\ ~parseError
                     /\ LessThan(now, Prop(parsed.val, "expiresAt"))
        cleared == IF present THEN [ls EXCEPT ![DeviceKey] = NoItem] ELSE ls
        ioRead == IF present THEN {"getItem", "removeItem"} ELSE {"getItem"}
        newDeviceId == Uuid(n + 1)
        newStored == JSON_stringify([deviceId |-> newDeviceId,
                                     expiresAt |-> Num(now + DEVICE_ID_TTL)])
    IN IF unexpired
       THEN [ret |-> Prop(parsed.val, "deviceId"), ls |-> ls,
             io |-> {"getItem"}, drew |-> FALSE]
       ELSE IF mode = "full"
       THEN [ret |-> newDeviceId, ls |-> cleared,
             io |-> ioRead \cup {"setItem"}, drew |-> TRUE]
       ELSE [ret |-> newDeviceId,
             ls |-> [cleared EXCEPT ![DeviceKey] = newStored],
             io |-> ioRead \cup {"setItem"}, drew |-> TRUE]

\* getOrCreateDeviceId without the TTL test: a stored record that parses is
\* returned whatever its expiresAt.
getOrCreateDeviceIdNoExpiry(ls, mode, now, n) ==
  IF mode = "absent"
  THEN [ret |-> Null, ls |-> ls, io |-> {}, drew |-> FALSE]
  ELSE IF mode = "denied"
  THEN [ret |-> Null, ls |-> ls, io |-> {"getItem"}, drew |-> FALSE]
  ELSE
    LET stored == ls[DeviceKey]
        present == stored # NoItem
        parsed == JSON_parse(stored)
        parseError == present /\ (~parsed.ok \/ Nullish(parsed.val))
        cleared == IF present THEN [ls EXCEPT ![DeviceKey] = NoItem] ELSE ls
        ioRead == IF present THEN {"getItem", "removeItem"} ELSE {"getItem"}
        newDeviceId == Uuid(n + 1)
        newStored == JSON_stringify([deviceId |-> newDeviceId,
                                     expiresAt |-> Num(now + DEVICE_ID_TTL)])
    IN IF present /\ ~parseError
       THEN [ret |-> Prop(parsed.val, "deviceId"), ls |-> ls,
             io |-> {"getItem"}, drew |-> FALSE]
       ELSE IF mode = "full"
       THEN [ret |-> Null, ls |-> cleared, io |-> ioRead \cup {"setItem"},
             drew |-> TRUE]
       ELSE [ret |-> newDeviceId,
             ls |-> [cleared EXCEPT ![DeviceKey] = newStored],
             io |-> ioRead \cup {"setItem"}, drew |-> TRUE]

\* A getOrCreateDeviceId with a sliding expiry: returning the stored
\* identifier also renews its record for another DEVICE_ID_TTL.
getOrCreateDeviceIdSliding(ls, mode, now, n) ==
  IF mode = "absent"
  THEN [ret |-> Null, ls |-> ls, io |-> {}, drew |-> FALSE]
  ELSE IF mode = "denied"
  THEN [ret |-> Null, ls |-> ls, io |-> {"getItem"}, drew |-> FALSE]
  ELSE
    LET stored == ls[DeviceKey]
        present == stored # NoItem
        parsed == JSON_parse(stored)
        parseError == present /\ (~parsed.ok \/ Nullish(parsed.val))
        unexpired == /\ present
                     /\ ~parseError
                     /\ LessThan(now, Prop(parsed.val, "expiresAt"))
        cleared == IF present THEN [ls EXCEPT ![DeviceKey] = NoItem] ELSE ls
        ioRead == IF present THEN {"getItem", "removeItem"} ELSE {"getItem"}
        newDeviceId == generateDeviceId(n + 1)
        newStored == StoredDeviceId(newDeviceId, now + DEVICE_ID_TTL)
    IN IF unexpired
       THEN [ret |-> Prop(parsed.val, "deviceId"),
             ls |-> IF mode = "full" THEN ls
                    ELSE [ls EXCEPT ![DeviceKey] =
                            StoredDeviceId(Prop(parsed.val, "deviceId"),
                                           now + DEVICE_ID_TTL)],
             io |-> {"getItem", "setItem"}, drew |-> FALSE]
       ELSE IF mode = "full"
       THEN [ret |-> Null, ls |-> cleared, io |-> ioRead \cup {"setItem"},
             drew |-> TRUE]
       ELSE [ret |-> newDeviceId,
             ls |-> [cleared EXCEPT ![DeviceKey] = newStored],
             io |-> ioRead \cup {"setItem"}, drew |-> TRUE]

\* getOrCreateDeviceId run on storage ls at time now, n identifiers drawn
\* so far.  Gives the returned value, the storage it leaves, the storage
\* calls it made and whether generateDeviceId was called.
getOrCreateDeviceId(ls, mode, now, n) ==
  IF mode = "absent"
  THEN [ret |-> Null, ls |-> ls, io |-> {}, drew |-> FALSE]
  ELSE IF mode = "denied"
  THEN \* getItem throws: outer catch
       [ret |-> Null, ls |-> ls, io |-> {"getItem"}, drew |-> FALSE]
  ELSE
    LET stored == ls[DeviceKey]
        present == stored # NoItem
        parsed == JSON_parse(stored)
        \* inner try: JSON.parse throws, or parsed.expiresAt is read from null
        parseError == present /\ (~parsed.ok \/ Nullish(parsed.val))
        unexpired == /\ present
                     /\ ~parseError
                     /\ LessThan(now, Prop(parsed.val, "expiresAt"))
        cleared == IF present THEN [ls EXCEPT ![DeviceKey] = NoItem] ELSE ls
        ioRead == IF present THEN {"getItem", "removeItem"} ELSE {"getItem"}
        newDeviceId == generateDeviceId(n + 1)
        newStored == StoredDeviceId(newDeviceId, now + DEVICE_ID_TTL)
    IN IF unexpired
       THEN [ret |-> Prop(parsed.val, "deviceId"), ls |-> ls,
             io |-> {"getItem"}, drew |-> FALSE]
       ELSE IF mode = "full"
       THEN \* setItem throws: outer catch
            [ret |-> Null, ls |-> cleared, io |-> ioRead \cup {"setItem"},
             drew |-> TRUE]
       ELSE [ret |-> newDeviceId,
             ls |-> [cleared EXCEPT ![DeviceKey] = newStored],
             io |-> ioRead \cup {"setItem"}, drew |-> TRUE]

(***************************************************************************)
(* Submission-state cache.                                                 *)
(***************************************************************************)
NotSubmitted == Obj([submitted |-> Bool(FALSE)])

\* A getEmailSubmissionData that clears a stored value it cannot parse, as
\* the identity store does.
getEmailSubmissionDataClearing(ls, mode, projectId) ==
  IF mode = "absent" THEN [ret |-> NotSubmitted, ls |-> ls, io |-> {}]
  ELSE IF mode = "denied"
  THEN [ret |-> NotSubmitted, ls |-> ls, io |-> {"getItem"}]
  ELSE LET data == ls[EmailKey(projectId.v)]
           parsed == JSON_parse(data)
       IN IF data = NoItem
          THEN [ret |-> NotSubmitted, ls |-> ls, io |-> {"getItem"}]
          ELSE IF parsed.ok
          THEN [ret |-> parsed.val, ls |-> ls, io |-> {"getItem"}]
          ELSE [ret |-> NotSubmitted,
                ls |-> [ls EXCEPT ![EmailKey(projectId.v)] = NoItem],
                io |-> {"getItem", "removeItem"}]

\* getEmailSubmissionData(projectId): the value returned, the storage it
\* leaves and the storage calls made.
getEmailSubmissionData(ls, mode, projectId) ==
  IF mode = "absent" THEN [ret |-> NotSubmitted, ls |-> ls, io |-> {}]
  ELSE IF mode = "denied"
  THEN \* getItem throws: caught and logged
       [ret |-> NotSubmitted, ls |-> ls, io |-> {"getItem"}]
  ELSE LET data == ls[EmailKey(projectId.v)]
           parsed == JSON_parse(data)
       IN IF data # NoItem /\ parsed.ok
          THEN [ret |-> parsed.val, ls |-> ls, io |-> {"getItem"}]
          ELSE [ret |-> NotSubmitted, ls |-> ls, io |-> {"getItem"}]

\* saveEmailSubmission that keeps a record already present (first write
\* wins).
saveEmailSubmissionOnce(ls, mode, projectId, email, now) ==
  IF mode = "absent" THEN [ls |-> ls, io |-> {}]
  ELSE IF mode \in {"denied", "full"} THEN [ls |-> ls, io |-> {"setItem"}]
  ELSE IF ls[EmailKey(projectId.v)] # NoItem THEN [ls |-> ls, io |-> {"getItem"}]
  ELSE [ls |-> [ls EXCEPT ![EmailKey(projectId.v)] =
                  JSON_stringify([submitted |-> Bool(TRUE),
                                  email |-> email,
                                  submittedAt |-> IsoString(now)])],
        io |-> {"setItem"}]

\* saveEmailSubmission that writes the record under every project's key.
saveEmailSubmissionEveryProject(ls, mode, projectId, email, now) ==
  IF mode = "absent" THEN [ls |-> ls, io |-> {}]
  ELSE IF mode \in {"denied", "full"} THEN [ls |-> ls, io |-> {"setItem"}]
  ELSE [ls |-> [k \in DOMAIN ls |->
                  IF k = DeviceKey THEN ls[k]
                  ELSE JSON_stringify([submitted |-> Bool(TRUE),
                                       email |-> email,
                                       submittedAt |-> IsoString(now)])],
        io |-> {"setItem"}]

\* saveEmailSubmission(projectId, email) at time now: the storage it leaves
\* and the storage calls made.
saveEmailSubmission(ls, mode, projectId, email, now) ==
  IF mode = "absent" THEN [ls |-> ls, io |-> {}]
  ELSE IF mode \in {"denied", "full"}
  THEN \* setItem throws: caught and logged
       [ls |-> ls, io |-> {"setItem"}]
  ELSE [ls |-> [ls EXCEPT ![EmailKey(projectId.v)] =
                  JSON_stringify([submitted |-> Bool(TRUE),
                                  email |-> email,
                                  submittedAt |-> IsoString(now)])],
        io |-> {"setItem"}]

(***************************************************************************)
(* LanorxClient.                                                           *)
(***************************************************************************)
\* A client slot before construction.
NoClient == [live |-> FALSE]

\* A constructor that resolves the device identifier before it validates
\* the configuration.
ConstructorResolveFirst(config, ls, mode, now, n) ==
  LET merged == Spread([apiUrl |-> Str(DEFAULT_API_URL)], config)
      id == getOrCreateDeviceId(ls, mode, now, n)
  IN IF Falsy(Prop(Obj(merged), "projectId"))
     THEN [threw |-> TRUE, error |-> "projectId is required",
           ls |-> id.ls, io |-> id.io, drew |-> id.drew]
     ELSE IF Falsy(Prop(Obj(merged), "apiKey"))
     THEN [threw |-> TRUE, error |-> "apiKey is required",
           ls |-> id.ls, io |-> id.io, drew |-> id.drew]
     ELSE [threw |-> FALSE, config |-> merged, deviceId |-> id.ret,
           ls |-> id.ls, io |-> id.io, drew |-> id.drew]

\* A constructor that gives every instance an identifier of its own
\* instead of the one in storage.
ConstructorOwnIdentity(config, ls, mode, now, n) ==
  LET merged == Spread([apiUrl |-> Str(DEFAULT_API_URL)], config)
  IN IF Falsy(Prop(Obj(merged), "projectId"))
     THEN [threw |-> TRUE, error |-> "projectId is required",
           ls |-> ls, io |-> {}, drew |-> FALSE]
     ELSE IF Falsy(Prop(Obj(merged), "apiKey"))
     THEN [threw |-> TRUE, error |-> "apiKey is required",
           ls |-> ls, io |-> {}, drew |-> FALSE]
     ELSE [threw |-> FALSE, config |-> merged, deviceId |-> Uuid(n + 1),
           ls |-> ls, io |-> {}, drew |-> TRUE]

\* new LanorxClient(config): either throws, touching nothing, or yields the
\* merged configuration and the device identifier captured from storage.
Constructor(config, ls, mode, now, n) ==
  LET merged == Spread([apiUrl |-> Str(DEFAULT_API_URL)], config)
      id == getOrCreateDeviceId(ls, mode, now, n)
  IN IF Falsy(Prop(Obj(merged), "projectId"))
     THEN [threw |-> TRUE, error |-> "projectId is required",
           ls |-> ls, io |-> {}, drew |-> FALSE]
     ELSE IF Falsy(Prop(Obj(merged), "apiKey"))
     THEN [threw |-> TRUE, error |-> "apiKey is required",
           ls |-> ls, io |-> {}, drew |-> FALSE]
     ELSE [threw |-> FALSE, config |-> merged, deviceId |-> id.ret,
           ls |-> id.ls, io |-> id.io, drew |-> id.drew]

\* LanorxClient.hasSubmittedEmail()
hasSubmittedEmail(client, ls, mode) ==
  getEmailSubmissionData(ls, mode, client.config.projectId)

(***************************************************************************)
(* HTTP.                                                                   *)
(***************************************************************************)
\* A text that is the JSON encoding of value v.
JsonText(v) == [fmt |-> "json", val |-> v]
EmptyObject == Obj([k \in {} |-> Null])

\* Status codes a response may carry; response.ok is status in 200..299.
Statuses == {200, 409, 500}
ResponseOk(status) == status >= 200 /\ status <= 299

\* Response bodies: not JSON, the JSON null, {}, {error}, {data}.
Bodies ==
  { RawText("<html>"),
    NullText,
    JsonText(EmptyObject),
    JsonText(Obj([error |-> Str("duplicate")])),
    JsonText(Obj([error |-> Str("")])),
    JsonText(Obj([data |-> Obj([id |-> Str("id-1")])])) }

\* Values thrown inside the try blocks.
SyntaxError == [isError |-> TRUE, message |-> "Unexpected token in JSON"]
TypeError == [isError |-> TRUE, message |-> "Cannot read properties of null"]
StringifyError ==
  [isError |-> TRUE, message |-> "Converting circular structure to JSON"]
\* What fetch rejects with: a TypeError, or a value that is not an Error.
FetchRejections ==
  { [isError |-> TRUE, message |-> "Failed to fetch"],
    [isError |-> FALSE, message |-> "aborted"] }

\* The text `HTTP ${status}`.
HttpStatusText(status) == [t |-> "string", http |-> status]

\* The catch block of submitEmail and trackEvent.
Catch(thrown) ==
  [success |-> FALSE,
   error |-> IF thrown.isError THEN Str(thrown.message)
             ELSE Str("Unknown error")]

\* Arguments of submitEmail and trackEvent.
EmailOptions == {Obj([email |-> Str(e)]) : e \in Emails}
EventOptions ==
  { Obj([type |-> Str("CTA"), contentId |-> Str("variant-a"),
         meta |-> Obj([section |-> Str("pricing")])]) }

\* The options the convenience wrappers hand to trackEvent.
trackPageViewOptions(contentId) ==
  Obj([type |-> Str("VIEW"), contentId |-> contentId])
\* A trackCTA that reports the click as a page view.
trackCTAOptionsAsView(section, contentId) ==
  Obj([type |-> Str("VIEW"), contentId |-> contentId,
       meta |-> Obj([section |-> section])])
trackCTAOptions(section, contentId) ==
  Obj([type |-> Str("CTA"), contentId |-> contentId,
       meta |-> Obj([section |-> section])])
trackNavigateOptions(meta, contentId) ==
  Obj([type |-> Str("NAVIGATE"), contentId |-> contentId, meta |-> meta])

\* A submitEmail request that reads the device identifier from storage at
\* the time of the call instead of using the one the client holds.
submitEmailRequestReresolved(client, options, referrer, ua) ==
  [url |-> <<client.config.apiUrl, "/api/v1/projects/",
             client.config.projectId, "/emails">>,
   method |-> "POST",
   contentType |-> "application/json",
   authorization |-> <<"Bearer ", client.config.apiKey>>,
   body |-> JSON_stringify(
              [email |-> Prop(options, "email"),
               deviceId |-> Prop(JSON_parse(localStorage[DeviceKey]).val,
                                 "deviceId"),
               deviceType |-> getDeviceType(ua),
               referrer |-> getReferrer(referrer),
               userAgent |-> getUserAgent(ua)])]

\* The request submitEmail hands to fetch.
submitEmailRequest(client, options, referrer, ua) ==
  [url |-> <<client.config.apiUrl, "/api/v1/projects/",
             client.config.projectId, "/emails">>,
   method |-> "POST",
   contentType |-> "application/json",
   authorization |-> <<"Bearer ", client.config.apiKey>>,
   body |-> JSON_stringify([email |-> Prop(options, "email"),
                            deviceId |-> client.deviceId,
                            deviceType |-> getDeviceType(ua),
                            referrer |-> getReferrer(referrer),
                            userAgent |-> getUserAgent(ua)])]

\* A trackEvent request that leaves the metadata out.
trackEventRequestNoMeta(client, options, referrer, ua) ==
  [url |-> <<client.config.apiUrl, "/api/v1/projects/",
             client.config.projectId, "/events">>,
   method |-> "POST",
   contentType |-> "application/json",
   authorization |-> <<"Bearer ", client.config.apiKey>>,
   body |-> JSON_stringify([type |-> Prop(options, "type"),
                            contentId |-> Prop(options, "contentId"),
                            deviceId |-> client.deviceId,
                            deviceType |-> getDeviceType(ua),
                            referrer |-> getReferrer(referrer),
                            userAgent |-> getUserAgent(ua)])]

\* A trackEvent request that is posted to the emails endpoint.
trackEventRequestToEmails(client, options, referrer, ua) ==
  [url |-> <<client.config.apiUrl, "/api/v1/projects/",
             client.config.projectId, "/emails">>,
   method |-> "POST",
   contentType |-> "application/json",
   authorization |-> <<"Bearer ", client.config.apiKey>>,
   body |-> JSON_stringify([type |-> Prop(options, "type"),
                            contentId |-> Prop(options, "contentId"),
                            deviceId |-> client.deviceId,
                            deviceType |-> getDeviceType(ua),
                            referrer |-> getReferrer(referrer),
                            userAgent |-> getUserAgent(ua),
                            meta |-> Prop(options, "meta")])]

\* The request trackEvent hands to fetch.
trackEventRequest(client, options, referrer, ua) ==
  [url |-> <<client.config.apiUrl, "/api/v1/projects/",
             client.config.projectId, "/events">>,
   method |-> "POST",
   contentType |-> "application/json",
   authorization |-> <<"Bearer ", client.config.apiKey>>,
   body |-> JSON_stringify([type |-> Prop(options, "type"),
                            contentId |-> Prop(options, "contentId"),
                            deviceId |-> client.deviceId,
                            deviceType |-> getDeviceType(ua),
                            referrer |-> getReferrer(referrer),
                            userAgent |-> getUserAgent(ua),
                            meta |-> Prop(options, "meta")])]

\* A submitEmail that withdraws the submission record when the server
\* refuses the submission.
submitEmailTryWithdrawing(client, options, status, body, ls, mode, now) ==
  LET parsed == JSON_parse(body)
      data == parsed.val
      saved == saveEmailSubmission(ls, mode, client.config.projectId,
                                   Prop(options, "email"), now)
      withdrawn == IF mode = "ok"
                   THEN [ls EXCEPT ![EmailKey(client.config.projectId.v)] = NoItem]
                   ELSE ls
  IN IF ~parsed.ok
     THEN [threw |-> TRUE, thrown |-> SyntaxError, ls |-> ls, io |-> {}]
     ELSE IF ~ResponseOk(status)
     THEN IF Nullish(data)
          THEN [threw |-> TRUE, thrown |-> TypeError, ls |-> ls, io |-> {}]
          ELSE [threw |-> FALSE,
                value |-> [success |-> FALSE,
                           error |-> OrElse(Prop(data, "error"),
                                            HttpStatusText(status))],
                ls |-> withdrawn, io |-> {"removeItem"}]
     ELSE IF Nullish(data)
          THEN [threw |-> TRUE, thrown |-> TypeError,
                ls |-> saved.ls, io |-> saved.io]
          ELSE [threw |-> FALSE,
                value |-> [success |-> TRUE, data |-> Prop(data, "data")],
                ls |-> saved.ls, io |-> saved.io]

\* A submitEmail that lets a failed write of the submission record escape
\* into its catch block.
submitEmailTryStrictSave(client, options, status, body, ls, mode, now) ==
  LET parsed == JSON_parse(body)
      data == parsed.val
      saved == saveEmailSubmission(ls, mode, client.config.projectId,
                                   Prop(options, "email"), now)
  IN IF ~parsed.ok
     THEN [threw |-> TRUE, thrown |-> SyntaxError, ls |-> ls, io |-> {}]
     ELSE IF ~ResponseOk(status)
     THEN IF Nullish(data)
          THEN [threw |-> TRUE, thrown |-> TypeError, ls |-> ls, io |-> {}]
          ELSE [threw |-> FALSE,
                value |-> [success |-> FALSE,
                           error |-> OrElse(Prop(data, "error"),
                                            HttpStatusText(status))],
                ls |-> ls, io |-> {}]
     ELSE IF mode # "ok"
          THEN [threw |-> TRUE,
                thrown |-> [isError |-> TRUE,
                            message |-> "The quota has been exceeded."],
                ls |-> ls, io |-> saved.io]
          ELSE IF Nullish(data)
          THEN [threw |-> TRUE, thrown |-> TypeError,
                ls |-> saved.ls, io |-> saved.io]
          ELSE [threw |-> FALSE,
                value |-> [success |-> TRUE, data |-> Prop(data, "data")],
                ls |-> saved.ls, io |-> saved.io]

\* The try block of submitEmail from `await response.json()` on: what it
\* throws or returns, and what it does to storage on the way.
submitEmailTry(client, options, status, body, ls, mode, now) ==
  LET parsed == JSON_parse(body)
      data == parsed.val
      saved == saveEmailSubmission(ls, mode, client.config.projectId,
                                   Prop(options, "email"), now)
  IN IF ~parsed.ok
     THEN [threw |-> TRUE, thrown |-> SyntaxError, ls |-> ls, io |-> {}]
     ELSE IF ~ResponseOk(status)
     THEN IF Nullish(data)
          THEN [threw |-> TRUE, thrown |-> TypeError, ls |-> ls, io |-> {}]
          ELSE [threw |-> FALSE,
                value |-> [success |-> FALSE,
                           error |-> OrElse(Prop(data, "error"),
                                            HttpStatusText(status))],
                ls |-> ls, io |-> {}]
     ELSE IF Nullish(data)
          THEN \* data.data is read after the record was saved
               [threw |-> TRUE, thrown |-> TypeError,
                ls |-> saved.ls, io |-> saved.io]
          ELSE [threw |-> FALSE,
                value |-> [success |-> TRUE, data |-> Prop(data, "data")],
                ls |-> saved.ls, io |-> saved.io]

\* A trackEvent that reports `HTTP ${status}` for every non-2xx response,
\* whatever the body says.
trackEventTryStatusOnly(client, options, status, body, ls, mode, now) ==
  LET parsed == JSON_parse(body)
      data == parsed.val
  IN IF ~parsed.ok
     THEN [threw |-> TRUE, thrown |-> SyntaxError, ls |-> ls, io |-> {}]
     ELSE IF Nullish(data)
     THEN [threw |-> TRUE, thrown |-> TypeError, ls |-> ls, io |-> {}]
     ELSE IF ~ResponseOk(status)
     THEN [threw |-> FALSE,
           value |-> [success |-> FALSE, error |-> HttpStatusText(status)],
           ls |-> ls, io |-> {}]
     ELSE [threw |-> FALSE,
           value |-> [success |-> TRUE, data |-> Prop(data, "data")],
           ls |-> ls, io |-> {}]

\* The try block of trackEvent from `await response.json()` on.
trackEventTry(client, options, status, body, ls, mode, now) ==
  LET parsed == JSON_parse(body)
      data == parsed.val
  IN IF ~parsed.ok
     THEN [threw |-> TRUE, thrown |-> SyntaxError, ls |-> ls, io |-> {}]
     ELSE IF Nullish(data)
     THEN [threw |-> TRUE, thrown |-> TypeError, ls |-> ls, io |-> {}]
     ELSE IF ~ResponseOk(status)
     THEN [threw |-> FALSE,
           value |-> [success |-> FALSE,
                      error |-> OrElse(Prop(data, "error"),
                                       HttpStatusText(status))],
           ls |-> ls, io |-> {}]
     ELSE [threw |-> FALSE,
           value |-> [success |-> TRUE, data |-> Prop(data, "data")],
           ls |-> ls, io |-> {}]

\* A call without its catch block: what the try block throws rejects the
\* promise.
SettleUncaught(try) ==
  [rejected |-> try.threw,
   result |-> IF try.threw THEN [success |-> FALSE] ELSE try.value,
   ls |-> try.ls, io |-> try.io]

\* How the promise of a call settles once its try block has run: always
\* fulfilled, with the value returned or with what the catch block makes
\* of the value thrown.
Settle(try) ==
  [rejected |-> FALSE,
   result |-> IF try.threw THEN Catch(try.thrown) ELSE try.value,
   ls |-> try.ls, io |-> try.io]

(***************************************************************************)
(* Framework adapters.  A client is named by its index in clients; 0 is    *)
(* the null of a client that has not been created.                         *)
(***************************************************************************)
AdapterKinds == {"react", "vue", "svelte", "angular"}

\* What the email hook, composable or store holds.
NoEmailAdapter ==
  [kind |-> "none", client |-> 0, mounted |-> FALSE, loading |-> FALSE,
   error |-> Null, submissionStatus |-> Undefined, inflight |-> {}]

\* Before anything is mounted, installed or initialised.
NoAdapters ==
  [provider |-> [mounted |-> FALSE, memo |-> <<>>, client |-> 0,
                 effectDeps |-> <<>>, effectPending |-> FALSE],
   app |-> [installed |-> FALSE, client |-> 0, rootMounted |-> FALSE],
   clientInstance |-> 0,
   service |-> [client |-> 0],
   \* the autoTrackPageView each adapter was last given, default applied
   autoTrackPageView |-> [a \in AdapterKinds |-> Undefined],
   \* the page views each adapter has requested by itself since it was
   \* instantiated
   autoPageViews |-> [a \in AdapterKinds |-> 0],
   email |-> NoEmailAdapter]

\* An adapter submitEmail whose failure also resets the submission status.
EmailSettledForgetting(email, k, call, result, now) ==
  IF k \notin email.inflight THEN email
  ELSE [email EXCEPT
          !.error = IF ~result.success
                    THEN OrElse(result.error, Str("Failed to submit email"))
                    ELSE @,
          !.submissionStatus =
             IF result.success
             THEN Obj([submitted |-> Bool(TRUE),
                       email |-> Prop(call.options, "email"),
                       submittedAt |-> IsoString(now)])
             ELSE Obj([submitted |-> Bool(FALSE)]),
          !.loading = FALSE,
          !.inflight = @ \ {k}]

\* An adapter submitEmail without its finally block: loading is left set.
EmailSettledNoFinally(email, k, call, result, now) ==
  IF k \notin email.inflight THEN email
  ELSE [email EXCEPT
          !.error = IF ~result.success
                    THEN OrElse(result.error, Str("Failed to submit email"))
                    ELSE @,
          !.submissionStatus =
             IF result.success
             THEN Obj([submitted |-> Bool(TRUE),
                       email |-> Prop(call.options, "email"),
                       submittedAt |-> IsoString(now)])
             ELSE @,
          !.inflight = @ \ {k}]

\* The adapter's submitEmail after `await client.submitEmail(options)`, for
\* call k settling with result at time now: error or submission status is
\* set, then the finally block clears loading.  A call the adapter did not
\* make leaves it alone.  (client.submitEmail never rejects, so the catch
\* block of the adapter is not entered.)
EmailSettled(email, k, call, result, now) ==
  IF k \notin email.inflight THEN email
  ELSE [email EXCEPT
          !.error = IF ~result.success
                    THEN OrElse(result.error, Str("Failed to submit email"))
                    ELSE @,
          !.submissionStatus =
             IF result.success
             THEN Obj([submitted |-> Bool(TRUE),
                       email |-> Prop(call.options, "email"),
                       submittedAt |-> IsoString(now)])
             ELSE @,
          !.loading = FALSE,
          !.inflight = @ \ {k}]

(***************************************************************************)
(* State machine.                                                          *)
(***************************************************************************)
Clients == 1..NumClients
LiveClients == {c \in Clients : clients[c].live}
InFlight == {k \in 1..Len(calls) : calls[k].pc \in {"fetch", "json"}}

\* What may be found under DEVICE_ID_KEY when the page loads: nothing, a
\* bare identifier of an earlier SDK generation, the text null, a record
\* without deviceId, or the record an earlier page load left behind.
InitialDeviceTexts ==
  { NoItem,
    RawText("legacy-device-id"),
    NullText,
    JsonText(Obj([expiresAt |-> Num(2 * TickMs)])),
    StoredDeviceId(Uuid(0), TickMs) }

Init ==
  /\ clock = 0
  /\ storageMode \in StorageModes
  /\ \E d \in InitialDeviceTexts :
       /\ storageMode \in {"denied", "absent"} => d = NoItem
       /\ localStorage = [k \in StorageKeys |->
                            IF k = DeviceKey THEN d ELSE NoItem]
  /\ nextId = 0
  /\ clients = [c \in Clients |-> NoClient]
  /\ calls = <<>>
  /\ adapters = NoAdapters
  /\ documentReferrer \in Referrers
  /\ userAgent = DesktopUserAgent
  /\ succeeded = {}
  /\ lastOp = [op |-> "init"]

\* Time passes.
Tick ==
  /\ clock < MaxTicks * TickMs
  /\ clock' = clock + TickMs
  /\ lastOp' = [op |-> "tick"]
  /\ UNCHANGED <<storageMode, localStorage, nextId, clients, calls,
                 adapters, documentReferrer, userAgent, succeeded>>

\* new LanorxClient(config), as the core does it for whoever calls it.
ConstructStep(config) ==
  LET r == Constructor(config, localStorage, storageMode, clock, nextId)
      c == Cardinality(LiveClients) + 1
  IN /\ r.threw \/ c \in Clients
     /\ localStorage' = r.ls
     /\ nextId' = IF r.drew THEN nextId + 1 ELSE nextId
     /\ clients' = IF r.threw THEN clients
                   ELSE [clients EXCEPT ![c] =
                           [live |-> TRUE, config |-> r.config,
                            deviceId |-> r.deviceId]]
     /\ lastOp' = [op |-> "construct", config |-> config,
                   threw |-> r.threw, io |-> r.io]
     /\ UNCHANGED <<clock, storageMode, calls, documentReferrer, userAgent, succeeded>>

\* new LanorxClient(config), called by the host page.
Construct(config) == ConstructStep(config) /\ UNCHANGED adapters

\* client.hasSubmittedEmail(), as the core does it for whoever calls it.
HasSubmittedEmailStep(c) ==
  LET r == hasSubmittedEmail(clients[c], localStorage, storageMode)
  IN /\ c \in LiveClients
     /\ localStorage' = r.ls
     /\ lastOp' = [op |-> "hasSubmittedEmail", client |-> c,
                   ret |-> r.ret, io |-> r.io]
     /\ UNCHANGED <<clock, storageMode, nextId, clients, calls,
                    documentReferrer, userAgent, succeeded>>

\* client.hasSubmittedEmail(), called by the host page.
HasSubmittedEmail(c) == HasSubmittedEmailStep(c) /\ UNCHANGED adapters

\* Calls of submitEmail on client c that are in flight with another email.
Overlapping(c, options) ==
  {k \in InFlight : /\ calls[k].op = "submitEmail"
                    /\ calls[k].client = c
                    /\ calls[k].options # options}

\* client.submitEmail(options) up to `await fetch(...)`, as the core does it
\* for whoever calls it.
SubmitEmailStep(c, options) ==
  LET over == Overlapping(c, options)
  IN /\ c \in LiveClients
     /\ Len(calls) < MaxCalls
     /\ calls' = Append([k \in 1..Len(calls) |->
                           IF k \in over
                           THEN [calls[k] EXCEPT !.concurrent = TRUE]
                           ELSE calls[k]],
                        [pc |-> "fetch", op |-> "submitEmail", client |-> c,
                         options |-> options,
                         request |-> submitEmailRequest(clients[c], options,
                                                       documentReferrer, userAgent),
                         concurrent |-> over # {}])
     /\ lastOp' = [op |-> "submitEmail", api |-> "submitEmail",
                   call |-> Len(calls) + 1, io |-> {"fetch"}]
     /\ UNCHANGED <<clock, storageMode, localStorage, nextId, clients,
                    documentReferrer, userAgent, succeeded>>

\* client.submitEmail(options) up to `await fetch(...)`, called by the host
\* page.
SubmitEmail(c, options) == SubmitEmailStep(c, options) /\ UNCHANGED adapters

\* A settling that sends a failed call again.
DoneRetried(call, result) ==
  IF result.success
  THEN [pc |-> "done", op |-> call.op, success |-> result.success]
  ELSE [call EXCEPT !.pc = "fetch"]

\* The call, as remembered once its promise has settled.
Done(call, result) ==
  [pc |-> "done", op |-> call.op, success |-> result.success]

\* trackEvent(options), entered through the public operation api, up to
\* `await fetch(...)`.  When JSON.stringify throws on the body, fetch is not
\* called: the catch block runs and the call settles at once.
TrackEventStep(c, options, api) ==
  LET call == [pc |-> "start", op |-> "trackEvent", client |-> c,
               options |-> options, concurrent |-> FALSE]
      s == Settle([threw |-> TRUE, thrown |-> StringifyError,
                   ls |-> localStorage, io |-> {}])
  IN /\ c \in LiveClients
     /\ Len(calls) < MaxCalls
     /\ IF Serialisable(Prop(options, "meta"))
        THEN /\ calls' = Append(calls,
                     [pc |-> "fetch", op |-> "trackEvent", client |-> c,
                      options |-> options,
                      request |-> trackEventRequest(clients[c], options,
                                                    documentReferrer, userAgent),
                      concurrent |-> FALSE])
             /\ lastOp' = [op |-> "trackEvent", api |-> api,
                           call |-> Len(calls) + 1, io |-> {"fetch"}]
        ELSE /\ calls' = Append(calls, Done(call, s.result))
             /\ lastOp' = [op |-> "settled", api |-> api, call |-> call,
                           responded |-> FALSE, rejected |-> s.rejected,
                           result |-> s.result, io |-> s.io]
     /\ UNCHANGED <<clock, storageMode, localStorage, nextId, clients,
                    documentReferrer, userAgent, succeeded>>

\* The same, called by the host page.
TrackEventAs(c, options, api) ==
  TrackEventStep(c, options, api) /\ UNCHANGED adapters

\* client.trackEvent(options)
TrackEvent(c, options) == TrackEventAs(c, options, "trackEvent")
\* client.trackPageView(contentId)
TrackPageView(c, contentId) ==
  TrackEventAs(c, trackPageViewOptions(contentId), "trackPageView")
\* client.trackCTA(section, contentId)
TrackCTA(c, section, contentId) ==
  TrackEventAs(c, trackCTAOptions(section, contentId), "trackCTA")
\* client.trackNavigate(meta, contentId)
TrackNavigate(c, meta, contentId) ==
  TrackEventAs(c, trackNavigateOptions(meta, contentId), "trackNavigate")

\* The fetch of call k is fulfilled with a response: the call goes on to
\* `await response.json()`.
FetchResponds(k, status) ==
  /\ k \in InFlight
  /\ calls[k].pc = "fetch"
  /\ calls' = [calls EXCEPT ![k] =
                 [pc |-> "json", op |-> calls[k].op,
                  client |-> calls[k].client, options |-> calls[k].options,
                  request |-> calls[k].request,
                  concurrent |-> calls[k].concurrent, status |-> status]]
  /\ lastOp' = [op |-> "response", call |-> k]
  /\ UNCHANGED <<clock, storageMode, localStorage, nextId, clients,
                 adapters, documentReferrer, userAgent, succeeded>>

\* The fetch of call k is rejected: the catch block runs and the call
\* settles.
FetchRejects(k, thrown) ==
  LET s == Settle([threw |-> TRUE, thrown |-> thrown,
                   ls |-> localStorage, io |-> {}])
  IN /\ k \in InFlight
     /\ calls[k].pc = "fetch"
     /\ calls' = [calls EXCEPT ![k] = Done(calls[k], s.result)]
     /\ adapters' = [adapters EXCEPT
                       !.email = EmailSettled(@, k, calls[k], s.result, clock)]
     /\ lastOp' = [op |-> "settled", call |-> calls[k], responded |-> FALSE,
                   rejected |-> s.rejected, result |-> s.result, io |-> s.io]
     /\ UNCHANGED <<clock, storageMode, localStorage, nextId, clients,
                    documentReferrer, userAgent, succeeded>>

\* response.json() of call k completes on a body: the rest of the try block
\* runs and the call settles.
BodyArrives(k, body) ==
  LET call == calls[k]
      client == clients[call.client]
      try == IF call.op = "submitEmail"
             THEN submitEmailTry(client, call.options, call.status, body,
                                 localStorage, storageMode, clock)
             ELSE trackEventTry(client, call.options, call.status, body,
                                localStorage, storageMode, clock)
      s == Settle(try)
  IN /\ k \in InFlight
     /\ call.pc = "json"
     /\ localStorage' = s.ls
     /\ calls' = [calls EXCEPT ![k] = Done(call, s.result)]
     /\ adapters' = [adapters EXCEPT
                       !.email = EmailSettled(@, k, call, s.result, clock)]
     /\ succeeded' =
          IF call.op = "submitEmail" /\ ~s.rejected /\ s.result.success
          THEN succeeded \cup {client.config.projectId.v}
          ELSE succeeded
     /\ lastOp' = [op |-> "settled", call |-> call, responded |-> TRUE,
                   body |-> body, rejected |-> s.rejected,
                   result |-> s.result, io |-> s.io]
     /\ UNCHANGED <<clock, storageMode, nextId, clients, documentReferrer, userAgent>>

Next ==
  \/ Tick
  \/ \E config \in Configs : Construct(config)
  \/ \E c \in Clients : HasSubmittedEmail(c)
  \/ \E c \in Clients, options \in EmailOptions : SubmitEmail(c, options)
  \/ \E c \in Clients, options \in EventOptions : TrackEvent(c, options)
  \/ \E k \in 1..MaxCalls, status \in Statuses : FetchResponds(k, status)
  \/ \E k \in 1..MaxCalls, thrown \in FetchRejections : FetchRejects(k, thrown)
  \/ \E k \in 1..MaxCalls, body \in Bodies : BodyArrives(k, body)

Spec == Init /\ [][Next]_vars

\* The identity store alone: constructions as time passes.
NextIdentity ==
  \/ Tick
  \/ \E config \in Configs : Construct(config)

SpecIdentity == Init /\ [][NextIdentity]_vars

\* Constructions and the requests clients send as time passes; the requests
\* stay in flight.
NextRequests ==
  \/ Tick
  \/ \E config \in ValidConfigs : Construct(config)
  \/ \E c \in Clients, options \in EmailOptions :
       Len(calls) < MaxPending /\ SubmitEmail(c, options)
  \/ \E c \in Clients, options \in EventOptions :
       Len(calls) < MaxPending /\ TrackEvent(c, options)

SpecRequests == Init /\ [][NextRequests]_vars

\* The network operations on a page that loads with no stored identity and
\* no referrer, and whose clock stands still.
\* The valid configurations that name an origin or leave it out.
NetworkConfigs ==
  {config \in ValidConfigs :
     "apiUrl" \notin DOMAIN config \/ config.apiUrl # Undefined}
InitNetwork ==
  /\ Init
  /\ localStorage[DeviceKey] = NoItem
  /\ documentReferrer = Str("")

NextNetwork ==
  \/ \E config \in NetworkConfigs : Construct(config)
  \/ \E c \in Clients, options \in EmailOptions : SubmitEmail(c, options)
  \/ \E c \in Clients, options \in EventOptions : TrackEvent(c, options)
  \/ \E k \in 1..MaxCalls, status \in Statuses : FetchResponds(k, status)
  \/ \E k \in 1..MaxCalls, thrown \in FetchRejections : FetchRejects(k, thrown)
  \/ \E k \in 1..MaxCalls, body \in Bodies : BodyArrives(k, body)

SpecNetwork == InitNetwork /\ [][NextNetwork]_vars

\* The network operations with at most MaxSettleClients clients and
\* MaxPending calls made.
NextSettle ==
  \/ \E config \in NetworkConfigs :
       Cardinality(LiveClients) < MaxSettleClients /\ Construct(config)
  \/ \E c \in Clients, options \in EmailOptions :
       Len(calls) < MaxPending /\ SubmitEmail(c, options)
  \/ \E c \in Clients, options \in EventOptions :
       Len(calls) < MaxPending /\ TrackEvent(c, options)
  \/ \E k \in 1..MaxCalls, status \in Statuses : FetchResponds(k, status)
  \/ \E k \in 1..MaxCalls, thrown \in FetchRejections : FetchRejects(k, thrown)
  \/ \E k \in 1..MaxCalls, body \in Bodies : BodyArrives(k, body)

SpecSettle == InitNetwork /\ [][NextSettle]_vars

(***************************************************************************)
(* Properties.                                                             *)
(***************************************************************************)
\* The step taken settled a call of operation op.
SettledOp(op, step) == step.op = "settled" /\ step.call.op = op
\* The step taken settled a call whose fetch was answered by a response.
Answered(step) == step.op = "settled" /\ step.responded
\* The project of the client that made the call.
ProjectOf(call) == clients[call.client].config.projectId.v
\* The submission record { submitted: true, email, submittedAt } as a text.
SubmissionRecord(email, now) ==
  JsonText(Obj([submitted |-> Bool(TRUE), email |-> email,
                submittedAt |-> IsoString(now)]))
\* The text is a { deviceId, expiresAt } record of a string and a number.
WellFormedDeviceText(text) ==
  /\ text.fmt = "json"
  /\ Prop(text.val, "deviceId").t = "string"
  /\ Prop(text.val, "expiresAt").t = "number"
\* The text is a record whose expiresAt the clock has reached.
ExpiredDeviceText(text, now) ==
  /\ text.fmt = "json"
  /\ Prop(text.val, "expiresAt").t = "number"
  /\ now >= Prop(text.val, "expiresAt").n
\* The clients this step constructed.
Constructed(c) == ~clients[c].live /\ clients'[c].live

\* C1: every step of a submitEmail call that ends with success:false leaves
\* the stored submission records as they were, and a 409 response with body
\* {error:"duplicate"} gives {success:false, error:"duplicate"}.
C1_FailedSubmitKeepsRecord ==
  [][ /\ lastOp'.op \in {"submitEmail", "response"}
           => localStorage' = localStorage
      /\ (SettledOp("submitEmail", lastOp') /\ ~lastOp'.result.success)
           => localStorage' = localStorage
      /\ ( /\ SettledOp("submitEmail", lastOp')
           /\ lastOp'.responded
           /\ lastOp'.call.status = 409
           /\ lastOp'.body = JsonText(Obj([error |-> Str("duplicate")])) )
           => lastOp'.result = [success |-> FALSE, error |-> Str("duplicate")]
    ]_vars

\* C2 (on a page whose storage works): hasSubmittedEmail() returns
\* {submitted:false} for a project as long as no submitEmail for it has
\* succeeded, and right after a submitEmail({email}) resolved with
\* success:true it returns submitted:true, that email and a submittedAt.
C2_StatusFollowsSuccess ==
  storageMode = "ok" =>
    \A c \in LiveClients :
      LET status == hasSubmittedEmail(clients[c], localStorage, storageMode).ret
      IN /\ clients[c].config.projectId.v \notin succeeded
              => status = NotSubmitted
         /\ ( /\ SettledOp("submitEmail", lastOp)
              /\ lastOp.result.success
              /\ ProjectOf(lastOp.call) = clients[c].config.projectId.v )
              => /\ Prop(status, "submitted") = Bool(TRUE)
                 /\ Prop(status, "email") = Prop(lastOp.call.options, "email")
                 /\ Prop(status, "submittedAt") # Undefined

\* C3 (on a page whose storage works): a submission record for a project is
\* in storage if and only if some earlier submitEmail of a client of that
\* project resolved with success:true.
C3_RecordIffSuccess ==
  storageMode = "ok" =>
    \A p \in ProjectIds : localStorage[EmailKey(p)] # NoItem <=> p \in succeeded

\* C4: the device identifier of a client never changes once constructed, and
\* every request the client sends carries it, whatever storage holds by then.
C4_DeviceIdFixed ==
  [][ /\ \A c \in Clients : clients[c].live => clients'[c] = clients[c]
      /\ \A k \in 1..Len(calls') :
           k > Len(calls)
             => Prop(JSON_parse(calls'[k].request.body).val, "deviceId")
                  = clients[calls'[k].client].deviceId
    ]_vars

\* C4 witness: a request in flight carries the identifier of its client while
\* storage holds the record of another identifier that replaced it.
C4_Witness ==
  \E k \in InFlight :
    LET id == clients[calls[k].client].deviceId
    IN /\ id.t = "string"
       /\ storageMode = "ok"
       /\ WellFormedDeviceText(localStorage[DeviceKey])
       /\ Prop(localStorage[DeviceKey].val, "deviceId") # id
       /\ Prop(JSON_parse(calls[k].request.body).val, "deviceId") = id

\* C5: with working storage and a well-formed stored record, a
\* getOrCreateDeviceId call made while the clock is before expiresAt returns
\* the stored identifier and leaves storage alone (so all such calls agree);
\* a call made once the clock has reached expiresAt returns another identifier
\* and leaves storage holding a record for it.
C5_StableUntilExpiry ==
  [][ \A c \in Clients :
        ( /\ Constructed(c)
          /\ storageMode = "ok"
          /\ WellFormedDeviceText(localStorage[DeviceKey]) )
        => LET old == localStorage[DeviceKey].val
               new == localStorage'[DeviceKey]
           IN IF clock < Prop(old, "expiresAt").n
              THEN /\ clients'[c].deviceId = Prop(old, "deviceId")
                   /\ localStorage' = localStorage
              ELSE /\ clients'[c].deviceId.t = "string"
                   /\ clients'[c].deviceId # Prop(old, "deviceId")
                   /\ WellFormedDeviceText(new)
                   /\ Prop(new.val, "deviceId") = clients'[c].deviceId
                   /\ clock < Prop(new.val, "expiresAt").n
    ]_vars

\* C5 witness: the second client was constructed after the record the first
\* one read had expired, and storage holds the second one's identifier.
C5_Witness ==
  /\ storageMode = "ok"
  /\ clients[1].live /\ clients[2].live
  /\ clients[1].deviceId.t = "string"
  /\ clients[2].deviceId.t = "string"
  /\ clients[1].deviceId # clients[2].deviceId
  /\ Prop(localStorage[DeviceKey].val, "deviceId") = clients[2].deviceId

\* C6: two clients constructed one after the other, whatever their valid
\* configurations, hold the same device identifier when no stored record
\* expired between the two constructions.
C6_SharedIdentity ==
  [][ \A c \in Clients :
        ( /\ Constructed(c)
          /\ c > 1
          /\ ~ExpiredDeviceText(localStorage[DeviceKey], clock) )
        => clients'[c].deviceId = clients[c - 1].deviceId
    ]_vars

\* C6 witness: two clients with different configurations, constructed at
\* different times, hold the same generated identifier.
C6_Witness ==
  /\ clients[1].live /\ clients[2].live
  /\ clients[1].config # clients[2].config
  /\ clients[1].deviceId = clients[2].deviceId
  /\ clients[1].deviceId = Uuid(1)
  /\ lastOp.op = "construct"
  /\ clock > 0

\* C7: a construction with an empty or missing projectId or apiKey throws,
\* and a construction that throws made no storage call and no request:
\* storage, the identifiers drawn, the clients and the calls are unchanged.
C7_FailFast ==
  [][ lastOp'.op = "construct"
        => /\ lastOp'.config \in InvalidConfigs => lastOp'.threw
           /\ lastOp'.threw
                => /\ lastOp'.io = {}
                   /\ localStorage' = localStorage
                   /\ nextId' = nextId
                   /\ clients' = clients
                   /\ calls' = calls
    ]_vars

\* C7 witness: a construction threw on a page whose storage works and holds
\* no identity yet.
C7_Witness ==
  /\ lastOp.op = "construct"
  /\ lastOp.threw
  /\ storageMode = "ok"
  /\ localStorage[DeviceKey] = NoItem
  /\ nextId = 0

\* C8: every submitEmail and trackEvent call settles by fulfilling its
\* promise with a result envelope, never by rejecting it: success:true, or
\* success:false together with an error that is a string.
C8_NeverRejects ==
  lastOp.op = "settled"
    => /\ ~lastOp.rejected
       /\ \/ lastOp.result.success
          \/ /\ ~lastOp.result.success
             /\ "error" \in DOMAIN lastOp.result
             /\ lastOp.result.error.t = "string"

\* C8 witness: a trackEvent call settled on a response whose body is not
\* JSON, on a page whose storage throws.
C8_Witness ==
  /\ SettledOp("trackEvent", lastOp)
  /\ lastOp.responded
  /\ lastOp.body = RawText("<html>")
  /\ storageMode = "denied"
  /\ ~lastOp.result.success

\* The error message a response body carries, if any.
CarriesMessage(body) ==
  /\ body.fmt = "json"
  /\ Prop(body.val, "error").t = "string"
  /\ Prop(body.val, "error") # Str("")

\* C9 as written: for every non-2xx response the result is success:false
\* with the error message of the body when it carries one, and otherwise
\* `HTTP ${status}`.
C9_ErrorOfEveryNon2xx ==
  (Answered(lastOp) /\ ~ResponseOk(lastOp.call.status))
    => lastOp.result =
         [success |-> FALSE,
          error |-> IF CarriesMessage(lastOp.body)
                    THEN Prop(lastOp.body.val, "error")
                    ELSE HttpStatusText(lastOp.call.status)]

\* C9 amended: for every non-2xx response whose body parses as JSON to a
\* value other than null, the result is success:false with the error message
\* of the body when it carries one, and otherwise `HTTP ${status}`; when the
\* body does not parse or is null, the error is the message of the exception.
C9_ErrorOfParsedNon2xx ==
  (Answered(lastOp) /\ ~ResponseOk(lastOp.call.status))
    => lastOp.result =
         [success |-> FALSE,
          error |-> IF lastOp.body.fmt # "json"
                    THEN Str(SyntaxError.message)
                    ELSE IF lastOp.body.val = Null
                    THEN Str(TypeError.message)
                    ELSE IF CarriesMessage(lastOp.body)
                    THEN Prop(lastOp.body.val, "error")
                    ELSE HttpStatusText(lastOp.call.status)]

\* C9 witness: a trackEvent call answered 409 {error:"duplicate"} settled
\* with that message.
C9_Witness ==
  /\ SettledOp("trackEvent", lastOp)
  /\ lastOp.responded
  /\ lastOp.call.status = 409
  /\ lastOp.body = JsonText(Obj([error |-> Str("duplicate")]))
  /\ lastOp.result.error = Str("duplicate")

\* C10 as written: a submitEmail call that overlapped with one of another
\* email on the same client and whose response is 2xx resolves with
\* success:true, and its write leaves a well-formed record with its email,
\* so that the record is that of the call that wrote last.
C10_BothSucceedLastWins ==
  ( /\ SettledOp("submitEmail", lastOp)
    /\ lastOp.call.concurrent
    /\ lastOp.responded
    /\ ResponseOk(lastOp.call.status) )
    => /\ lastOp.result.success
       /\ localStorage[EmailKey(ProjectOf(lastOp.call))]
            = SubmissionRecord(Prop(lastOp.call.options, "email"), clock)

\* C10 amended: a submitEmail call that overlapped with one of another email
\* on the same client and whose response is 2xx with a body that parses as
\* JSON to a value other than null resolves with success:true, and with
\* working storage its write leaves a well-formed record with its email, so
\* that the record is that of the call that wrote last.
C10_ParsedBothSucceedLastWins ==
  ( /\ SettledOp("submitEmail", lastOp)
    /\ lastOp.call.concurrent
    /\ lastOp.responded
    /\ ResponseOk(lastOp.call.status)
    /\ lastOp.body.fmt = "json"
    /\ lastOp.body.val # Null )
    => /\ lastOp.result.success
       /\ storageMode = "ok"
            => localStorage[EmailKey(ProjectOf(lastOp.call))]
                 = SubmissionRecord(Prop(lastOp.call.options, "email"), clock)

\* C10 witness: two overlapping submitEmail calls of one client have both
\* resolved with success:true and the record holds the email of the one
\* that settled last.
C10_Witness ==
  /\ Len(calls) = 2
  /\ \A k \in 1..2 : /\ calls[k].pc = "done"
                     /\ calls[k].op = "submitEmail"
                     /\ calls[k].success
  /\ SettledOp("submitEmail", lastOp)
  /\ lastOp.call.concurrent
  /\ lastOp.call.request.body.val.f.email = Str("a@example.com")
  /\ storageMode = "ok"
  /\ Prop(localStorage[EmailKey(ProjectOf(lastOp.call))].val, "email")
       = Str("a@example.com")
  /\ lastOp.io = {"setItem"}

\* The origins that some configuration names.
NamedOrigins ==
  {config.apiUrl : config \in {g \in Configs : /\ "apiUrl" \in DOMAIN g
                                             /\ g.apiUrl.t = "string"}}

\* C11: every request of a client that was created without an apiUrl value
\* (absent, or passed as undefined), that is of a client whose origin no
\* configuration named, goes to the production origin.
C11_DefaultOrigin ==
  \A k \in InFlight :
    clients[calls[k].client].config.apiUrl \notin NamedOrigins
      => calls[k].request.url[1] = Str(DEFAULT_API_URL)

(***************************************************************************)
(* The event operations: trackEvent with every event type and the three    *)
(* convenience wrappers, on a page that loads with no stored identity.     *)
(***************************************************************************)
EventTypes == {"VIEW", "CTA", "SUBMIT", "CONVERSION", "NAVIGATE"}
\* Arguments of the public event operations.
TrackOptions == {Obj([type |-> Str(t)]) : t \in EventTypes}
ContentIds == {Undefined, Str("variant-a")}
Sections == {Str("hero"), Str("pricing")}
Metas ==
  { Undefined,
    Obj([from |-> Str("/pricing")]),
    Obj([self |-> Cycle]) }

\* Arguments that name a device identifier, as the README describes them.
CallerDeviceId == Str("device-123")
EmailOptionsWithDeviceId ==
  { Obj([email |-> Str("a@example.com"), deviceId |-> CallerDeviceId]) }
TrackOptionsWithDeviceId ==
  { Obj([type |-> Str("CTA"), deviceId |-> CallerDeviceId]) }

InitEvents == Init /\ localStorage[DeviceKey] = NoItem

NextEvents ==
  \/ \E config \in Configs : Construct(config)
  \/ \E c \in Clients, options \in EmailOptions \cup EmailOptionsWithDeviceId :
       Len(calls) < MaxPending /\ SubmitEmail(c, options)
  \/ \E c \in Clients, options \in TrackOptions \cup TrackOptionsWithDeviceId :
       Len(calls) < MaxPending /\ TrackEvent(c, options)
  \/ \E c \in Clients, contentId \in ContentIds \cup {CallerDeviceId} :
       Len(calls) < MaxPending /\ TrackPageView(c, contentId)
  \/ \E c \in Clients, section \in Sections, contentId \in ContentIds :
       Len(calls) < MaxPending /\ TrackCTA(c, section, contentId)
  \/ \E c \in Clients, meta \in Metas, contentId \in ContentIds :
       Len(calls) < MaxPending /\ TrackNavigate(c, meta, contentId)

SpecEvents == InitEvents /\ [][NextEvents]_vars

\* The body of the request of call k, as the server parses it.
RequestBody(k) == JSON_parse(calls[k].request.body).val

\* C12: the request a trackPageView(contentId) call sends has type VIEW, the
\* given contentId, and a meta object that holds the referrer exactly when
\* document.referrer is not empty.
C12_PageViewMetaReferrer ==
  (lastOp.op = "trackEvent" /\ lastOp.api = "trackPageView")
    => LET body == RequestBody(lastOp.call)
           meta == Prop(body, "meta")
       IN /\ Prop(body, "type") = Str("VIEW")
          /\ Prop(body, "contentId")
               = Prop(calls[lastOp.call].options, "contentId")
          /\ meta.t = "object"
          /\ IF documentReferrer = Str("")
             THEN Prop(meta, "referrer") = Undefined
             ELSE Prop(meta, "referrer") = documentReferrer

\* C13: no request in flight is an event of type CONVERSION.
C13_NoConversionSent ==
  \A k \in InFlight :
    calls[k].op = "trackEvent" => Prop(RequestBody(k), "type") # Str("CONVERSION")

(***************************************************************************)
(* Calls and their outcomes: every public network operation of one page,   *)
(* with the responses, rejections and bodies that settle the calls.        *)
(***************************************************************************)
NextFire ==
  \/ \E config \in NetworkConfigs :
       Cardinality(LiveClients) < MaxSettleClients /\ Construct(config)
  \/ \E c \in Clients, options \in EmailOptions : SubmitEmail(c, options)
  \/ \E c \in Clients, options \in EventOptions : TrackEvent(c, options)
  \/ \E c \in Clients : TrackPageView(c, Undefined)
  \/ \E c \in Clients, section \in Sections : TrackCTA(c, section, Undefined)
  \/ \E c \in Clients, meta \in Metas : TrackNavigate(c, meta, Undefined)
  \/ \E k \in 1..MaxCalls, status \in Statuses : FetchResponds(k, status)
  \/ \E k \in 1..MaxCalls, thrown \in FetchRejections : FetchRejects(k, thrown)
  \/ \E k \in 1..MaxCalls, body \in Bodies : BodyArrives(k, body)

SpecFire == InitNetwork /\ [][NextFire]_vars

\* This step is the start of a call of a public network operation.
CallMade == Len(calls') = Len(calls) + 1
\* The options of the call this step started.
OptionsOfCallMade ==
  IF lastOp'.op = "settled" THEN lastOp'.call.options
  ELSE calls'[Len(calls')].options
\* This step hands no request to fetch, and leaves the requests in flight
\* as they are: no call goes back to its fetch.
NoRequestSent ==
  /\ lastOp'.op \in {"construct", "settled"} => "fetch" \notin lastOp'.io
  /\ \A k \in 1..Len(calls) :
       calls'[k].pc = "fetch"
         => calls[k].pc = "fetch" /\ calls'[k].request = calls[k].request

\* C14 as written: the step that starts a call hands exactly one request to
\* fetch, a POST, also while other calls are in flight and without touching
\* their requests; no later step of the call (response, rejection, body,
\* failure) hands another one to fetch.
C14_OnePostPerCall ==
  [][ /\ CallMade
        => /\ calls'[Len(calls')].pc = "fetch"
           /\ calls'[Len(calls')].request.method = "POST"
           /\ lastOp'.io = {"fetch"}
           /\ \A k \in 1..Len(calls) :
                calls[k].pc = "fetch"
                  => /\ calls'[k].pc = "fetch"
                     /\ calls'[k].request = calls[k].request
      /\ ~CallMade => NoRequestSent
    ]_vars

\* C14 amended: the step that starts a call whose request body JSON.stringify
\* can serialise hands exactly one request to fetch, a POST, also while other
\* calls are in flight and without touching their requests; a call whose body
\* cannot be serialised hands none to fetch and settles at once with
\* success:false; no later step of a call hands another one to fetch.
C14_OnePostPerSerialisableCall ==
  [][ /\ (CallMade /\ Serialisable(Prop(OptionsOfCallMade, "meta")))
        => /\ calls'[Len(calls')].pc = "fetch"
           /\ calls'[Len(calls')].request.method = "POST"
           /\ lastOp'.io = {"fetch"}
           /\ \A k \in 1..Len(calls) :
                calls[k].pc = "fetch"
                  => /\ calls'[k].pc = "fetch"
                     /\ calls'[k].request = calls[k].request
      /\ (CallMade /\ ~Serialisable(Prop(OptionsOfCallMade, "meta")))
        => /\ calls'[Len(calls')] =
                [pc |-> "done", op |-> "trackEvent", success |-> FALSE]
           /\ NoRequestSent
      /\ ~CallMade => NoRequestSent
    ]_vars

\* C14 witness: of two submitEmail calls that were in flight together, the
\* first has failed on a 500 response and stays settled while the request of
\* the second is still in flight.
C14_Witness ==
  /\ Len(calls) = 2
  /\ calls[1] = [pc |-> "done", op |-> "submitEmail", success |-> FALSE]
  /\ calls[2].pc = "fetch"
  /\ calls[2].op = "submitEmail"
  /\ lastOp.op = "settled"
  /\ lastOp.call.concurrent
  /\ lastOp.responded
  /\ lastOp.call.status = 500

(***************************************************************************)
(* The submission-state cache over time, on a page that may find a value   *)
(* under the submission key of project p1 and a stored identity.           *)
(***************************************************************************)
\* What may be found under the submission key when the page loads: nothing,
\* a text that is not JSON, the text null, or the record an earlier page load
\* left behind.
InitialSubmissionTexts ==
  { NoItem,
    RawText("garbage"),
    NullText,
    JSON_stringify([submitted |-> Bool(TRUE),
                    email |-> Str("b@example.com"),
                    submittedAt |-> IsoString(0)]) }

InitStored ==
  /\ clock = 0
  /\ storageMode \in StorageModes
  /\ \E d \in {NoItem, StoredDeviceId(Uuid(0), TickMs)},
        e \in InitialSubmissionTexts :
       /\ storageMode \in {"denied", "absent"} => d = NoItem /\ e = NoItem
       /\ localStorage = [k \in StorageKeys |->
                            IF k = DeviceKey THEN d
                            ELSE IF k = EmailKey("p1") THEN e
                            ELSE NoItem]
  /\ nextId = 0
  /\ clients = [c \in Clients |-> NoClient]
  /\ calls = <<>>
  /\ adapters = NoAdapters
  /\ documentReferrer = Str("")
  /\ userAgent = DesktopUserAgent
  /\ succeeded = {}
  /\ lastOp = [op |-> "init"]

NextCache ==
  \/ Tick
  \/ \E config \in NetworkConfigs : Construct(config)
  \/ \E c \in Clients : HasSubmittedEmail(c)
  \/ \E c \in Clients, options \in EmailOptions :
       Len(calls) < MaxPending /\ SubmitEmail(c, options)
  \/ \E c \in Clients, options \in EventOptions :
       Len(calls) < MaxPending /\ TrackEvent(c, options)
  \/ \E k \in 1..MaxCalls, status \in Statuses : FetchResponds(k, status)
  \/ \E k \in 1..MaxCalls, thrown \in FetchRejections : FetchRejects(k, thrown)
  \/ \E k \in 1..MaxCalls, body \in Bodies : BodyArrives(k, body)

SpecCache == InitStored /\ [][NextCache]_vars

\* C15: a hasSubmittedEmail() call hands nothing to fetch, starts no call,
\* makes no storage call other than reading, and leaves every storage key
\* (the identity record and all submission records) as it was.
C15_PureRead ==
  [][ lastOp'.op = "hasSubmittedEmail"
        => /\ localStorage' = localStorage
           /\ calls' = calls
           /\ lastOp'.io \subseteq {"getItem"}
    ]_vars

\* C15 witness: hasSubmittedEmail() has just run on working storage that
\* holds an unparseable value under the client's submission key and a stored
\* identity, and both are still there.
C15_Witness ==
  /\ lastOp.op = "hasSubmittedEmail"
  /\ storageMode = "ok"
  /\ lastOp.ret = NotSubmitted
  /\ localStorage[EmailKey(clients[lastOp.client].config.projectId.v)]
       = RawText("garbage")
  /\ localStorage[DeviceKey] # NoItem

C17_MalformedIsReplaced ==
  [][ \A c \in Clients :
        LET text == localStorage[DeviceKey]
        IN ( /\ Constructed(c)
             /\ storageMode = "ok"
             /\ text # NoItem
             /\ ~( /\ WellFormedDeviceText(text)
                   /\ clock < Prop(text.val, "expiresAt").n ) )
           => /\ clients'[c].deviceId.t = "string"
              /\ clients'[c].deviceId = generateDeviceId(nextId + 1)
              /\ localStorage'[DeviceKey]
                   = StoredDeviceId(clients'[c].deviceId, clock + DEVICE_ID_TTL)
    ]_vars

\* The text is the JSON of a submission record: an object with a boolean
\* submitted.
SubmissionRecordText(text) ==
  /\ text.fmt = "json"
  /\ text.val.t = "object"
  /\ Prop(text.val, "submitted").t = "boolean"

\* C18: what hasSubmittedEmail() returns is always an object, and it is
\* {submitted:false} when the project's key is missing, when the stored value
\* is not the JSON of a submission record (unparseable, or the text null),
\* and when storage is absent or throws.
C18_StatusObject ==
  lastOp.op = "hasSubmittedEmail"
    => LET text == localStorage[EmailKey(
                     clients[lastOp.client].config.projectId.v)]
       IN /\ lastOp.ret.t = "object"
          /\ ( \/ storageMode \in {"absent", "denied"}
               \/ text = NoItem
               \/ ~SubmissionRecordText(text) )
             => lastOp.ret = NotSubmitted

\* hasSubmittedEmail() of a client of project p returns submitted:true.
Submitted(p) ==
  Prop(getEmailSubmissionData(localStorage, storageMode, Str(p)).ret,
       "submitted") = Bool(TRUE)

\* C19: once hasSubmittedEmail() returns submitted:true for a project, it
\* does so after every further step: submissions that fail or succeed, event
\* tracking, the passing of time, the regeneration of an expired identity,
\* the construction of clients and the operations of other projects.
C19_SubmittedStays ==
  [][ \A p \in ProjectIds : Submitted(p) => Submitted(p)' ]_vars

\* C19 witness: project p1 is still reported as submitted after the stored
\* identity expired and was regenerated for a second client and after a
\* later submitEmail for p1 failed.
C19_Witness ==
  /\ Submitted("p1")
  /\ storageMode = "ok"
  /\ clients[1].live /\ clients[2].live
  /\ clients[1].deviceId = Uuid(0)
  /\ clients[2].deviceId = Uuid(1)
  /\ SettledOp("submitEmail", lastOp)
  /\ ProjectOf(lastOp.call) = "p1"
  /\ ~lastOp.result.success
  /\ lastOp.responded
  /\ lastOp.call.status = 409

\* C20: a construction hands nothing to fetch and starts no call, and a
\* request for an event of type VIEW is only handed to fetch by a step in
\* which the caller invoked trackPageView, or trackEvent with type VIEW.
C20_NoAutoPageView ==
  [][ /\ lastOp'.op = "construct"
        => /\ calls' = calls
           /\ "fetch" \notin lastOp'.io
      /\ \A k \in 1..Len(calls') :
           ( /\ k > Len(calls)
             /\ calls'[k].pc = "fetch"
             /\ calls'[k].op = "trackEvent"
             /\ Prop(JSON_parse(calls'[k].request.body).val, "type")
                  = Str("VIEW") )
           => \/ lastOp'.api = "trackPageView"
              \/ /\ lastOp'.api = "trackEvent"
                 /\ Prop(calls'[k].options, "type") = Str("VIEW")
    ]_vars

\* C20 witness: the only request of a constructed client is the VIEW event
\* its caller asked for with trackPageView.
C20_Witness ==
  /\ lastOp.op = "trackEvent"
  /\ lastOp.api = "trackPageView"
  /\ Len(calls) = 1
  /\ calls[1].pc = "fetch"
  /\ Prop(RequestBody(1), "type") = Str("VIEW")
  /\ clients[calls[1].client].live

\* C22: for every section s and contentId c, the step trackCTA(s, c) hands
\* exactly one request to fetch, a POST to the events endpoint whose body has
\* type CTA, contentId c (left out when c is omitted) and meta {section: s}.
C22_CTARequest ==
  [][ \A s \in Sections, c \in ContentIds :
        ( /\ CallMade
          /\ lastOp'.op = "trackEvent"
          /\ lastOp'.api = "trackCTA"
          /\ OptionsOfCallMade = trackCTAOptions(s, c) )
        => LET call == calls'[Len(calls')]
               body == JSON_parse(call.request.body).val
           IN /\ call.pc = "fetch"
              /\ lastOp'.io = {"fetch"}
              /\ call.request.method = "POST"
              /\ call.request.url[4] = "/events"
              /\ Prop(body, "type") = Str("CTA")
              /\ Prop(body, "contentId") = c
              /\ Prop(body, "meta") = Obj([section |-> s])
    ]_vars

\* C22 witness: trackCTA("pricing", "variant-a") has just sent its request.
C22_Witness ==
  /\ lastOp.op = "trackEvent"
  /\ lastOp.api = "trackCTA"
  /\ calls[lastOp.call].options
       = trackCTAOptions(Str("pricing"), Str("variant-a"))
  /\ Prop(RequestBody(lastOp.call), "meta") = Obj([section |-> Str("pricing")])
  /\ Prop(RequestBody(lastOp.call), "contentId") = Str("variant-a")

\* C24: every request in flight is a POST with Content-Type application/json
\* and Authorization Bearer <apiKey of its client>, to the emails endpoint
\* of its client's apiUrl and projectId when it is a submitEmail request and
\* to the events endpoint when it is a trackEvent request.
C24_RequestShape ==
  \A k \in InFlight :
    LET request == calls[k].request
        config == clients[calls[k].client].config
    IN /\ request.method = "POST"
       /\ request.contentType = "application/json"
       /\ request.authorization = <<"Bearer ", config.apiKey>>
       /\ request.url =
            <<config.apiUrl, "/api/v1/projects/", config.projectId,
              IF calls[k].op = "submitEmail" THEN "/emails" ELSE "/events">>

\* C24 witness: the second of two clients, of project p2 with an origin and
\* a key of its own, has a trackNavigate request in flight.
C24_Witness ==
  /\ clients[1].live /\ clients[2].live
  /\ clients[1].config.projectId = Str("p1")
  /\ clients[2].config.projectId = Str("p2")
  /\ lastOp.op = "trackEvent"
  /\ lastOp.api = "trackNavigate"
  /\ calls[lastOp.call].client = 2
  /\ calls[lastOp.call].request.url
       = <<Str("https://custom.example"), "/api/v1/projects/", Str("p2"),
           "/events">>
  /\ calls[lastOp.call].request.authorization = <<"Bearer ", Str("k2")>>

\* C25: a request made with options that name a deviceId carries that
\* deviceId, and the request of trackPageView(deviceId) carries the deviceId
\* passed.
C25_CallerDeviceId ==
  \A k \in InFlight :
    /\ Prop(calls[k].options, "deviceId") # Undefined
         => Prop(RequestBody(k), "deviceId") = Prop(calls[k].options, "deviceId")
    /\ ( /\ lastOp.op = "trackEvent"
         /\ lastOp.api = "trackPageView"
         /\ lastOp.call = k
         /\ Prop(calls[k].options, "contentId") = CallerDeviceId )
         => Prop(RequestBody(k), "deviceId") = CallerDeviceId

(***************************************************************************)
(* Device-type inference: the browser's user agent is any sequence of at   *)
(* most MaxUaTokens product names, or there is no navigator at all.        *)
(***************************************************************************)
MaxUaTokens == 3
UaTokens ==
  {"Mozilla", "iPad", "Android", "Mobile", "Windows", "Phone", "Touch",
   "iPhone"}
RECURSIVE TokenSeqs(_)
TokenSeqs(n) ==
  IF n = 0 THEN {<<>>}
  ELSE LET shorter == TokenSeqs(n - 1)
       IN shorter \cup {Append(q, t) : q \in shorter, t \in UaTokens}
UserAgents == {Ua(q) : q \in TokenSeqs(MaxUaTokens)} \cup {Undefined}

InitDeviceType ==
  /\ clock = 0
  /\ storageMode = "ok"
  /\ localStorage = [k \in StorageKeys |-> NoItem]
  /\ nextId = 0
  /\ clients = [c \in Clients |-> NoClient]
  /\ calls = <<>>
  /\ adapters = NoAdapters
  /\ documentReferrer = Str("")
  /\ userAgent \in UserAgents
  /\ succeeded = {}
  /\ lastOp = [op |-> "init"]

NextDeviceType ==
  \/ Cardinality(LiveClients) < MaxSettleClients
       /\ Construct([projectId |-> Str("p1"), apiKey |-> Str("k1")])
  \/ \E c \in Clients :
       Len(calls) < MaxPending
         /\ SubmitEmail(c, Obj([email |-> Str("a@example.com")]))
  \/ \E c \in Clients :
       Len(calls) < MaxPending /\ TrackPageView(c, Undefined)

SpecDeviceType == InitDeviceType /\ [][NextDeviceType]_vars

\* The user agent names the product.
HasToken(ua, token) == \E i \in 1..Len(ua.tokens) : ua.tokens[i] = token

\* C23: in a browser the deviceType of every request is tablet, mobile or
\* desktop; it is tablet whenever the user agent matches the tablet pattern,
\* whether or not it matches the mobile pattern too, and in particular
\* whenever the user agent contains iPad.
C23_TabletFirst ==
  \A k \in InFlight :
    LET deviceType == Prop(RequestBody(k), "deviceType")
    IN userAgent # Undefined
         => /\ deviceType \in {Str("tablet"), Str("mobile"), Str("desktop")}
            /\ MatchesTablet(userAgent) => deviceType = Str("tablet")
            /\ HasToken(userAgent, "iPad") => deviceType = Str("tablet")
            /\ deviceType = Str("mobile")
                 => ~MatchesTablet(userAgent) /\ MatchesMobile(userAgent)

\* C23 witness: a request is in flight from a browser whose user agent
\* contains iPad and Mobile, matching both patterns, and says tablet.
C23_Witness ==
  /\ userAgent = Ua(<<"Mozilla", "iPad", "Mobile">>)
  /\ MatchesTablet(userAgent) /\ MatchesMobile(userAgent)
  /\ \E k \in InFlight :
       Prop(RequestBody(k), "deviceType") = Str("tablet")

\* C26: the step in which a submitEmail call of a client of project P
\* settles with success:true changes no stored value but P's submission
\* record: the records of the other projects and the device-identity record
\* are what they were, and with working storage P's record is the one of
\* this submission.
C26_RecordsPerProject ==
  [][ (SettledOp("submitEmail", lastOp') /\ lastOp'.result.success)
        => LET project == ProjectOf(lastOp'.call)
           IN /\ \A key \in StorageKeys \ {EmailKey(project)} :
                   localStorage'[key] = localStorage[key]
              /\ storageMode = "ok"
                   => localStorage'[EmailKey(project)]
                        = SubmissionRecord(Prop(lastOp'.call.options, "email"),
                                           clock)
    ]_vars

\* C26 witness: a submitEmail for project p2 has just succeeded and left its
\* record, while project p1 still holds the different record it had when the
\* page loaded and the device-identity record is in place.
C26_Witness ==
  /\ SettledOp("submitEmail", lastOp)
  /\ lastOp.result.success
  /\ ProjectOf(lastOp.call) = "p2"
  /\ storageMode = "ok"
  /\ Submitted("p1") /\ Submitted("p2")
  /\ localStorage[EmailKey("p1")] # localStorage[EmailKey("p2")]
  /\ localStorage[DeviceKey] # NoItem

\* C27 as written: a submitEmail call answered 2xx with a body that parses as
\* JSON, made where the submission record cannot be written (storage absent,
\* or setItem throws), resolves with success:true and the data of the body,
\* with no error in the result.
C27_WriteFailureSwallowed ==
  ( /\ SettledOp("submitEmail", lastOp)
    /\ lastOp.responded
    /\ ResponseOk(lastOp.call.status)
    /\ lastOp.body.fmt = "json"
    /\ storageMode # "ok" )
    => lastOp.result =
         [success |-> TRUE, data |-> Prop(lastOp.body.val, "data")]

\* C27 amended: a submitEmail call answered 2xx with a body that parses as
\* JSON to a value other than null, made where the submission record cannot
\* be written (storage absent, or setItem throws), resolves with success:true
\* and the data of the body, with no error in the result, and leaves no
\* record.
C27_WriteFailureSwallowedNonNull ==
  ( /\ SettledOp("submitEmail", lastOp)
    /\ lastOp.responded
    /\ ResponseOk(lastOp.call.status)
    /\ lastOp.body.fmt = "json"
    /\ lastOp.body.val # Null
    /\ storageMode # "ok" )
    => /\ lastOp.result =
            [success |-> TRUE, data |-> Prop(lastOp.body.val, "data")]
       /\ localStorage[EmailKey(ProjectOf(lastOp.call))] = NoItem

\* C27 witness: with a storage whose setItem throws, a submitEmail answered
\* 200 {data:{id}} tried the write and resolved with success:true and the data.
C27_Witness ==
  /\ storageMode = "full"
  /\ SettledOp("submitEmail", lastOp)
  /\ lastOp.responded
  /\ lastOp.call.status = 200
  /\ lastOp.body = JsonText(Obj([data |-> Obj([id |-> Str("id-1")])]))
  /\ "setItem" \in lastOp.io
  /\ lastOp.result = [success |-> TRUE, data |-> Obj([id |-> Str("id-1")])]
  /\ localStorage[EmailKey("p1")] = NoItem

(***************************************************************************)
(* Adapter entry points: LanorxProvider (React), LanorxPlugin (Vue),       *)
(* initLanorx (Svelte) and LanorxService.init (Angular).                   *)
(***************************************************************************)
\* Options of the plugin, of initLanorx and of init: a configuration with
\* autoTrackPageView omitted, true or false.
AdapterOptions ==
  { [projectId |-> Str("p1"), apiKey |-> Str("k1")],
    [projectId |-> Str("p1"), apiKey |-> Str("k1"),
     autoTrackPageView |-> Bool(TRUE)],
    [projectId |-> Str("p1"), apiKey |-> Str("k1"),
     autoTrackPageView |-> Bool(FALSE)] }
\* Props of LanorxProvider; a prop left out is undefined.
ProviderProps ==
  { [projectId |-> Str(p[1]), apiKey |-> Str(p[2]), apiUrl |-> Undefined,
     autoTrackPageView |-> auto] :
      p \in {<<"p1", "k1">>, <<"p2", "k2">>},
      auto \in {Undefined, Bool(TRUE), Bool(FALSE)} }

\* `const { autoTrackPageView = true, ...config } = options`
AutoTrackPageViewOf(options) ==
  IF "autoTrackPageView" \in DOMAIN options
       /\ options.autoTrackPageView # Undefined
  THEN options.autoTrackPageView
  ELSE Bool(TRUE)
ConfigOf(options) ==
  [k \in DOMAIN options \ {"autoTrackPageView"} |-> options[k]]

\* The call client.trackPageView() leaves in flight.
PageViewCall(c, client) ==
  [pc |-> "fetch", op |-> "trackEvent", client |-> c,
   options |-> trackPageViewOptions(Undefined),
   request |-> trackEventRequest(client, trackPageViewOptions(Undefined),
                                 documentReferrer, userAgent),
   concurrent |-> FALSE]

\* initLanorx(options) and LanorxService.init(options): construct the client,
\* keep it, and request a page view unless autoTrackPageView is falsy.  A
\* constructor that throws leaves the adapter as it was.
InitWithPageView(options, a) ==
  LET auto == AutoTrackPageViewOf(options)
      r == Constructor(ConfigOf(options), localStorage, storageMode, clock,
                       nextId)
      c == Cardinality(LiveClients) + 1
      client == [live |-> TRUE, config |-> r.config, deviceId |-> r.deviceId]
      fires == ~r.threw /\ ~Falsy(auto)
  IN /\ r.threw \/ c \in Clients
     /\ fires => Len(calls) < MaxCalls
     /\ localStorage' = r.ls
     /\ nextId' = IF r.drew THEN nextId + 1 ELSE nextId
     /\ clients' = IF r.threw THEN clients ELSE [clients EXCEPT ![c] = client]
     /\ calls' = IF fires THEN Append(calls, PageViewCall(c, client)) ELSE calls
     /\ adapters' =
          IF r.threw THEN adapters
          ELSE [adapters EXCEPT
                  !.clientInstance = IF a = "svelte" THEN c ELSE @,
                  !.service.client = IF a = "angular" THEN c ELSE @,
                  !.autoTrackPageView[a] = auto,
                  !.autoPageViews[a] = IF fires THEN 1 ELSE 0]
     /\ lastOp' = [op |-> "init", adapter |-> a, threw |-> r.threw,
                   io |-> r.io \cup (IF fires THEN {"fetch"} ELSE {})]
     /\ UNCHANGED <<clock, storageMode, documentReferrer, userAgent, succeeded>>

\* Svelte: initLanorx(options)
initLanorx(options) == InitWithPageView(options, "svelte")
\* Angular: LanorxService.init(options)
init(options) == InitWithPageView(options, "angular")

\* Vue: app.use(LanorxPlugin, options) runs install once per application:
\* the client is constructed and provided, and the mounted hook is mixed in
\* when autoTrackPageView is truthy.
install(options) ==
  LET r == Constructor(ConfigOf(options), localStorage, storageMode, clock,
                       nextId)
      c == Cardinality(LiveClients) + 1
  IN /\ ~adapters.app.installed
     /\ ConstructStep(ConfigOf(options))
     /\ adapters' =
          IF r.threw THEN adapters
          ELSE [adapters EXCEPT
                  !.app = [installed |-> TRUE, client |-> c,
                           rootMounted |-> FALSE],
                  !.autoTrackPageView["vue"] = AutoTrackPageViewOf(options),
                  !.autoPageViews["vue"] = 0]

\* Vue: a component of the application is mounted; the root is mounted once.
\* The mixed-in hook requests a page view when the component is the root.
mounted(isRoot) ==
  LET hooked == ~Falsy(adapters.autoTrackPageView["vue"])
  IN /\ adapters.app.installed
     /\ isRoot => ~adapters.app.rootMounted
     /\ IF hooked /\ isRoot
        THEN TrackEventStep(adapters.app.client, trackPageViewOptions(Undefined),
                            "trackPageView")
        ELSE /\ lastOp' = [op |-> "mounted", root |-> isRoot]
             /\ UNCHANGED <<clock, storageMode, localStorage, nextId, clients,
                            calls, documentReferrer, userAgent, succeeded>>
     /\ adapters' =
          [adapters EXCEPT
             !.app.rootMounted = @ \/ isRoot,
             !.autoPageViews["vue"] = IF hooked /\ isRoot THEN @ + 1 ELSE @]

\* React: LanorxProvider renders with props (mount, or a re-render with the
\* same or other props).  useMemo constructs a client when it has none for
\* [projectId, apiKey, apiUrl]; the effect is due on mount and whenever
\* [client, autoTrackPageView] differs from the last render.  Hooks under
\* the provider see the new client.
LanorxProvider(props) ==
  LET provider == adapters.provider
      auto == AutoTrackPageViewOf(props)
      memo == <<props.projectId, props.apiKey, props.apiUrl>>
      fresh == ~provider.mounted \/ provider.memo # memo
      c == IF fresh THEN Cardinality(LiveClients) + 1 ELSE provider.client
      config == [projectId |-> props.projectId, apiKey |-> props.apiKey,
                 apiUrl |-> props.apiUrl]
  IN /\ ~provider.effectPending
     /\ IF fresh
        THEN /\ ~Constructor(config, localStorage, storageMode, clock,
                             nextId).threw
             /\ c \in Clients
             /\ ConstructStep(config)
        ELSE /\ lastOp' = [op |-> "render"]
             /\ UNCHANGED <<clock, storageMode, localStorage, nextId, clients,
                            calls, documentReferrer, userAgent, succeeded>>
     /\ adapters' =
          [adapters EXCEPT
             !.provider = [mounted |-> TRUE, memo |-> memo, client |-> c,
                           effectDeps |-> provider.effectDeps,
                           effectPending |->
                             \/ ~provider.mounted
                             \/ provider.effectDeps # <<c, auto>>],
             !.autoTrackPageView["react"] = auto,
             !.email = IF fresh /\ @.kind = "react"
                       THEN [@ EXCEPT !.client = c, !.mounted = FALSE]
                       ELSE @]

\* React: the effect of LanorxProvider runs after the render that made it
\* due: a page view is requested when autoTrackPageView is truthy.
ProviderEffect ==
  LET provider == adapters.provider
      auto == adapters.autoTrackPageView["react"]
  IN /\ provider.effectPending
     /\ IF ~Falsy(auto)
        THEN TrackEventStep(provider.client, trackPageViewOptions(Undefined),
                            "trackPageView")
        ELSE /\ lastOp' = [op |-> "effect"]
             /\ UNCHANGED <<clock, storageMode, localStorage, nextId, clients,
                            calls, documentReferrer, userAgent, succeeded>>
     /\ adapters' =
          [adapters EXCEPT
             !.provider.effectDeps = <<provider.client, auto>>,
             !.provider.effectPending = FALSE,
             !.autoPageViews["react"] = IF ~Falsy(auto) THEN @ + 1 ELSE @]

(***************************************************************************)
(* Getting at the client through an adapter.                               *)
(***************************************************************************)
\* A getLanorxClient that hands out whatever clientInstance holds.
getLanorxClientUnchecked(clientInstance) ==
  [threw |-> FALSE, message |-> "", value |-> clientInstance]

\* Svelte: getLanorxClient()
getLanorxClient(clientInstance) ==
  IF clientInstance = 0
  THEN [threw |-> TRUE,
        message |-> "Lanorx not initialized. Call initLanorx() first.",
        value |-> 0]
  ELSE [threw |-> FALSE, message |-> "", value |-> clientInstance]

\* Angular: LanorxService.getClient()
getClient(client) ==
  IF client = 0
  THEN [threw |-> TRUE,
        message |-> "Lanorx not initialized. Call init() first.",
        value |-> 0]
  ELSE [threw |-> FALSE, message |-> "", value |-> client]

\* React: useLanorx(), context being what useContext(LanorxContext) gives.
useLanorx(context) ==
  IF context = 0
  THEN [threw |-> TRUE,
        message |-> "useLanorx must be used within LanorxProvider",
        value |-> 0]
  ELSE [threw |-> FALSE, message |-> "", value |-> context]

\* Vue: useLanorx(), injected being what inject("lanorx") gives.
useLanorxInjected(injected) ==
  IF injected = 0
  THEN [threw |-> TRUE,
        message |-> "Lanorx client not found. Did you install the plugin?",
        value |-> 0]
  ELSE [threw |-> FALSE, message |-> "", value |-> injected]

\* The client lookup of adapter a in the current state.
Lookup(a) ==
  CASE a = "svelte" -> getLanorxClient(adapters.clientInstance)
    [] a = "angular" -> getClient(adapters.service.client)
    [] a = "react" -> useLanorx(IF adapters.provider.mounted
                                THEN adapters.provider.client ELSE 0)
    [] a = "vue" -> useLanorxInjected(IF adapters.app.installed
                                      THEN adapters.app.client ELSE 0)

\* What a use of adapter a through api leaves behind when the lookup r is
\* all it did.
Used(a, api, r) ==
  [op |-> "use", adapter |-> a, api |-> api, threw |-> r.threw,
   message |-> r.message, io |-> {}]

\* getLanorxClient() / useLanorx() called by the host, and createTrackingStore()
\* / useTracking(), which look the client up and build closures around it.
UseClient(a, api) ==
  /\ lastOp' = Used(a, api, Lookup(a))
  /\ UNCHANGED <<clock, storageMode, localStorage, nextId, clients, calls,
                 adapters, documentReferrer, userAgent, succeeded>>

\* createEmailStore() (Svelte) and useEmail() (React, Vue): the client is
\* looked up; then loading, error and submissionStatus are created, the
\* Svelte store reading hasSubmittedEmail() at once and the hooks starting
\* from {submitted:false} until they are mounted.
UseEmail(a) ==
  LET r == Lookup(a)
      status == hasSubmittedEmail(clients[r.value], localStorage, storageMode)
  IN IF r.threw
     THEN /\ lastOp' = Used(a, "email", r)
          /\ UNCHANGED <<clock, storageMode, localStorage, nextId, clients,
                         calls, adapters, documentReferrer, userAgent,
                         succeeded>>
     ELSE /\ r.value \in LiveClients
          /\ adapters.email.kind = "none"
          /\ adapters' =
               [adapters EXCEPT
                  !.email = [kind |-> a, client |-> r.value,
                             mounted |-> a = "svelte",
                             loading |-> FALSE, error |-> Null,
                             submissionStatus |->
                               IF a = "svelte" THEN status.ret
                               ELSE Obj([submitted |-> Bool(FALSE)]),
                             inflight |-> {}]]
          /\ localStorage' = IF a = "svelte" THEN status.ls ELSE localStorage
          /\ lastOp' = [op |-> "use", adapter |-> a, api |-> "email",
                        threw |-> FALSE, message |-> "",
                        io |-> IF a = "svelte" THEN status.io ELSE {}]
          /\ UNCHANGED <<clock, storageMode, nextId, clients, calls,
                         documentReferrer, userAgent, succeeded>>

\* An operation of LanorxService: getClient() throws before init, so that
\* the async operations reject and hasSubmittedEmail throws; after init the
\* operation of the client runs.
ServiceCall(api, step) ==
  LET r == getClient(adapters.service.client)
  IN IF r.threw
     THEN /\ lastOp' = Used("angular", api, r)
          /\ UNCHANGED <<clock, storageMode, localStorage, nextId, clients,
                         calls, adapters, documentReferrer, userAgent,
                         succeeded>>
     ELSE /\ r.value \in LiveClients
          /\ step
          /\ UNCHANGED adapters
ServiceHasSubmittedEmail ==
  ServiceCall("hasSubmittedEmail",
              HasSubmittedEmailStep(adapters.service.client))
ServiceSubmitEmail(options) ==
  ServiceCall("submitEmail", SubmitEmailStep(adapters.service.client, options))
ServiceTrackCTA(section, contentId) ==
  ServiceCall("trackCTA",
              TrackEventStep(adapters.service.client,
                             trackCTAOptions(section, contentId), "trackCTA"))
ServiceTrackNavigate(meta, contentId) ==
  ServiceCall("trackNavigate",
              TrackEventStep(adapters.service.client,
                             trackNavigateOptions(meta, contentId),
                             "trackNavigate"))

\* The adapters on a page: each is instantiated and used in any order.
NextMount ==
  \/ \E props \in ProviderProps : LanorxProvider(props)
  \/ ProviderEffect
  \/ \E options \in AdapterOptions : install(options)
  \/ \E isRoot \in BOOLEAN : mounted(isRoot)
  \/ \E options \in AdapterOptions : initLanorx(options)
  \/ \E options \in AdapterOptions : init(options)
  \/ \E a \in {"react", "vue", "svelte"}, api \in {"client", "tracking"} :
       UseClient(a, api)
  \/ \E a \in {"react", "vue", "svelte"} : UseEmail(a)
  \/ ServiceHasSubmittedEmail
  \/ ServiceSubmitEmail(Obj([email |-> Str("a@example.com")]))
  \/ ServiceTrackCTA(Str("hero"), Undefined)
  \/ ServiceTrackNavigate(Undefined, Undefined)

SpecMount == InitNetwork /\ [][NextMount]_vars

\* The adapter has been instantiated, and what its instantiation does by
\* itself is over.
Instantiated(a) ==
  CASE a = "svelte" -> adapters.clientInstance # 0
    [] a = "angular" -> adapters.service.client # 0
    [] a = "react" -> adapters.provider.mounted
                        /\ ~adapters.provider.effectPending
    [] a = "vue" -> adapters.app.installed /\ adapters.app.rootMounted

\* C21: an instantiated adapter has requested at most one page view by
\* itself, whatever re-renders, prop changes and child mounts followed: one
\* when its autoTrackPageView is true or omitted, and none when it is false
\* (for LanorxProvider, whose prop can change: none is not required).
C21_OneAutoPageView ==
  \A a \in AdapterKinds :
    Instantiated(a)
      => /\ adapters.autoPageViews[a] <= 1
         /\ ~Falsy(adapters.autoTrackPageView[a])
              => adapters.autoPageViews[a] = 1
         /\ (a # "react" /\ Falsy(adapters.autoTrackPageView[a]))
              => adapters.autoPageViews[a] = 0

\* The adapter can hand out a client.
Initialised(a) ==
  CASE a = "svelte" -> adapters.clientInstance # 0
    [] a = "angular" -> adapters.service.client # 0
    [] a = "react" -> adapters.provider.mounted
    [] a = "vue" -> adapters.app.installed
NotInitialisedMessages ==
  { "Lanorx not initialized. Call initLanorx() first.",
    "Lanorx not initialized. Call init() first.",
    "useLanorx must be used within LanorxProvider",
    "Lanorx client not found. Did you install the plugin?" }

\* C30: while an adapter is not initialised its client lookup throws, and a
\* step that uses it (getLanorxClient, createEmailStore, createTrackingStore,
\* every LanorxService operation, useLanorx of React and of Vue) throws the
\* adapter's error and does nothing else: no request, no storage access, no
\* client, no adapter state.
C30_ThrowsBeforeInit ==
  [][ \A a \in AdapterKinds :
        ~Initialised(a)
          => /\ Lookup(a).threw
             /\ (lastOp'.op = "use" /\ lastOp'.adapter = a)
                  => /\ lastOp'.threw
                     /\ lastOp'.message \in NotInitialisedMessages
                     /\ lastOp'.io = {}
                     /\ calls' = calls
                     /\ localStorage' = localStorage
                     /\ clients' = clients
                     /\ adapters' = adapters
    ]_vars

\* C30 witness: submitEmail of a LanorxService that was never initialised
\* has just thrown, on a page where the Svelte adapter is initialised and
\* has its page view in flight.
C30_Witness ==
  /\ lastOp.op = "use"
  /\ lastOp.adapter = "angular"
  /\ lastOp.api = "submitEmail"
  /\ lastOp.threw
  /\ lastOp.message = "Lanorx not initialized. Call init() first."
  /\ adapters.service.client = 0
  /\ adapters.clientInstance # 0
  /\ Len(calls) = 1
  /\ calls[1].client = adapters.clientInstance

(***************************************************************************)
(* The email hook (React useEmail), composable (Vue useEmail) and store    *)
(* (Svelte createEmailStore).                                              *)
(***************************************************************************)
\* React useEffect / Vue onMounted of useEmail: the submission status is
\* read from the client once the component is mounted.
onMounted ==
  LET email == adapters.email
      status == hasSubmittedEmail(clients[email.client], localStorage,
                                  storageMode)
  IN /\ email.kind \in {"react", "vue"}
     /\ ~email.mounted
     /\ localStorage' = status.ls
     /\ adapters' = [adapters EXCEPT !.email.mounted = TRUE,
                                     !.email.submissionStatus = status.ret]
     /\ lastOp' = [op |-> "onMounted", ret |-> status.ret, io |-> status.io]
     /\ UNCHANGED <<clock, storageMode, nextId, clients, calls,
                    documentReferrer, userAgent, succeeded>>

\* submitEmail(options) of the hook, composable or store, up to
\* `await client.submitEmail(options)`: loading is set, error is cleared and
\* the client sends the request.
AdapterSubmitEmail(options) ==
  LET email == adapters.email
  IN /\ email.kind # "none"
     /\ email.mounted
     /\ SubmitEmailStep(email.client, options)
     /\ adapters' = [adapters EXCEPT
                       !.email.loading = TRUE,
                       !.email.error = Null,
                       !.email.inflight = @ \cup {Len(calls) + 1}]

\* Adapters set up without the automatic page view.
QuietOptions ==
  {options \in AdapterOptions : Falsy(AutoTrackPageViewOf(options))}
QuietProps == {props \in ProviderProps : Falsy(AutoTrackPageViewOf(props))}

NextEmail ==
  \/ \E props \in QuietProps :
       (adapters.provider.mounted \/ LiveClients = {}) /\ LanorxProvider(props)
  \/ ProviderEffect
  \/ \E options \in QuietOptions : LiveClients = {} /\ install(options)
  \/ \E options \in QuietOptions : LiveClients = {} /\ initLanorx(options)
  \/ \E a \in {"react", "vue", "svelte"} : Initialised(a) /\ UseEmail(a)
  \/ onMounted
  \/ \E options \in EmailOptions : AdapterSubmitEmail(options)
  \/ \E k \in 1..MaxCalls, status \in Statuses : FetchResponds(k, status)
  \/ \E k \in 1..MaxCalls, thrown \in FetchRejections : FetchRejects(k, thrown)
  \/ \E k \in 1..MaxCalls, body \in Bodies : BodyArrives(k, body)

SpecEmail == InitNetwork /\ [][NextEmail]_vars

\* The step settled a submitEmail call the adapter had made.
AdapterCallSettled ==
  /\ lastOp'.op = "settled"
  /\ adapters'.email.inflight # adapters.email.inflight

\* C28: when an adapter submitEmail call completes and no other adapter
\* submitEmail call is in flight, loading is false and error is null when
\* the call resolved with success:true, and otherwise the error string of
\* the result, or 'Failed to submit email' when it has none.
C28_StateAfterCompletion ==
  [][ (AdapterCallSettled /\ adapters'.email.inflight = {})
        => /\ adapters'.email.loading = FALSE
           /\ adapters'.email.error =
                IF lastOp'.result.success THEN Null
                ELSE OrElse(lastOp'.result.error,
                            Str("Failed to submit email"))
    ]_vars

\* C29: when an adapter submitEmail({email: e}) call resolves with
\* success:true, submissionStatus becomes a record with submitted true and
\* email e; when it resolves with success:false, submissionStatus is what
\* it was.
C29_StatusFollowsResult ==
  [][ AdapterCallSettled
        => IF lastOp'.result.success
           THEN /\ Prop(adapters'.email.submissionStatus, "submitted")
                     = Bool(TRUE)
                /\ Prop(adapters'.email.submissionStatus, "email")
                     = Prop(lastOp'.call.options, "email")
           ELSE adapters'.email.submissionStatus
                  = adapters.email.submissionStatus
    ]_vars

\* C29 witness: the React hook's submitEmail for a@example.com succeeded and
\* a later one for b@example.com has just been refused with 409: the status
\* still says submitted with a@example.com.
C29_Witness ==
  /\ adapters.email.kind = "react"
  /\ lastOp.op = "settled"
  /\ lastOp.call.op = "submitEmail"
  /\ lastOp.responded
  /\ lastOp.call.status = 409
  /\ ~lastOp.result.success
  /\ Prop(lastOp.call.options, "email") = Str("b@example.com")
  /\ adapters.email.inflight = {}
  /\ Len(calls) = 2
  /\ calls[1].success
  /\ Prop(adapters.email.submissionStatus, "submitted") = Bool(TRUE)
  /\ Prop(adapters.email.submissionStatus, "email") = Str("a@example.com")
  /\ localStorage[EmailKey("p1")] = NoItem \/ storageMode = "ok"

\* C31: the expiry is absolute.  A step changes the value under the identity
\* key only by removing it or by storing a record generated in that step,
\* whose expiresAt is the time of the step plus DEVICE_ID_TTL (1,800,000
\* ms), so that a stored record keeps the expiry it was generated with; and a
\* getOrCreateDeviceId call that returns the identifier of the stored record
\* leaves storage unchanged.
C31_AbsoluteExpiry ==
  [][ LET old == localStorage[DeviceKey]
          new == localStorage'[DeviceKey]
      IN /\ new # old
              => \/ new = NoItem
                 \/ /\ nextId' = nextId + 1
                    /\ new = StoredDeviceId(generateDeviceId(nextId'),
                                            clock + 1800000)
         /\ \A c \in Clients :
              ( /\ Constructed(c)
                /\ WellFormedDeviceText(old)
                /\ clients'[c].deviceId = Prop(old.val, "deviceId") )
              => localStorage' = localStorage
    ]_vars

\* C31 witness: the record generated at time 0 for the first client was
\* found by a second client constructed one tick later, and still expires
\* 1,800,000 ms after time 0.
C31_Witness ==
  /\ storageMode = "ok"
  /\ clock = TickMs
  /\ lastOp.op = "construct"
  /\ clients[1].live /\ clients[2].live
  /\ clients[1].deviceId = generateDeviceId(1)
  /\ clients[2].deviceId = generateDeviceId(1)
  /\ localStorage[DeviceKey] = StoredDeviceId(generateDeviceId(1), 1800000)

\* C32: loading is true in every state in which a submitEmail call made
\* through the email hook, composable or store is still in flight, also
\* when calls overlap and one of them has finished.
C32_LoadingWhileInFlight ==
  adapters.email.inflight # {} => adapters.email.loading = TRUE

\* The submitEmail calls in flight, whoever made them.
SubmissionsInFlight == {k \in InFlight : calls[k].op = "submitEmail"}

\* C33: once the email hook, composable or store is created and mounted,
\* and while no submission is in flight, the submitted and email of its
\* submissionStatus are those of what client.hasSubmittedEmail() returns in
\* that state, whatever the storage does.
C33_StatusAgreesWithCore ==
  LET email == adapters.email
      core == hasSubmittedEmail(clients[email.client], localStorage,
                                storageMode).ret
  IN ( /\ email.kind # "none"
       /\ email.mounted
       /\ SubmissionsInFlight = {} )
     => /\ Prop(email.submissionStatus, "submitted") = Prop(core, "submitted")
        /\ Prop(email.submissionStatus, "email") = Prop(core, "email")

(***************************************************************************)
(* Termination.  The SDK starts no timer and aborts no request: a call     *)
(* moves on only when its fetch or its response.json() settles.  SpecLive  *)
(* assumes that each of them eventually does.                              *)
(***************************************************************************)
\* The answers considered: a success, a server error, a body that is not
\* JSON and a body with data.
LiveStatuses == {200, 500}
LiveBodies ==
  { RawText("<html>"), JsonText(Obj([data |-> Obj([id |-> Str("id-1")])])) }
InitLive == InitNetwork /\ storageMode = "ok"

NextLive ==
  \/ Tick
  \/ \E props \in QuietProps : LiveClients = {} /\ LanorxProvider(props)
  \/ ProviderEffect
  \/ \E options \in QuietOptions : LiveClients = {} /\ install(options)
  \/ \E options \in QuietOptions : LiveClients = {} /\ initLanorx(options)
  \/ \E a \in {"react", "vue", "svelte"} : Initialised(a) /\ UseEmail(a)
  \/ onMounted
  \/ AdapterSubmitEmail(Obj([email |-> Str("a@example.com")]))
  \/ \E c \in Clients, options \in EventOptions : TrackEvent(c, options)
  \/ \E k \in 1..MaxCalls, status \in LiveStatuses : FetchResponds(k, status)
  \/ \E k \in 1..MaxCalls, thrown \in FetchRejections : FetchRejects(k, thrown)
  \/ \E k \in 1..MaxCalls, body \in LiveBodies : BodyArrives(k, body)

\* Every HTTP request eventually settles: the fetch of call k is answered or
\* rejected, and the body of an answered call arrives.
RequestsSettle ==
  \A k \in 1..MaxCalls :
    /\ WF_vars(\/ \E status \in LiveStatuses : FetchResponds(k, status)
               \/ \E thrown \in FetchRejections : FetchRejects(k, thrown))
    /\ WF_vars(\E body \in LiveBodies : BodyArrives(k, body))

SpecLive == InitLive /\ [][NextLive]_vars /\ RequestsSettle

\* Call k has resolved.
Resolved(k) == k \in 1..Len(calls) /\ calls[k].pc = "done"

\* C34: when every HTTP request eventually settles, every submitEmail and
\* trackEvent call in flight eventually resolves and the loading flag of the
\* email hook, composable or store eventually returns to false; and a call
\* in flight resolves only in a step in which its request settles (its fetch
\* is rejected or its body arrives), never by the passing of time.
C34_ResolvesWhenRequestsSettle ==
  /\ \A k \in 1..MaxCalls : (k \in InFlight) ~> Resolved(k)
  /\ (adapters.email.loading = TRUE) ~> (adapters.email.loading = FALSE)
  /\ [][ \A k \in InFlight :
           Resolved(k)'
             => \/ \E thrown \in FetchRejections : FetchRejects(k, thrown)
                \/ \E body \in LiveBodies : BodyArrives(k, body)
       ]_vars

\* C34 witness: time has passed to the end of the clock, and a submitEmail
\* call of the store and a trackEvent call have both resolved, the first
\* after its fetch was rejected; loading is back to false.
C34_Witness ==
  /\ clock = MaxTicks * TickMs
  /\ adapters.email.kind = "svelte"
  /\ adapters.email.loading = FALSE
  /\ adapters.email.inflight = {}
  /\ adapters.email.error = Str("Failed to fetch")
  /\ Len(calls) = 2
  /\ Resolved(1) /\ Resolved(2)
  /\ calls[1].op = "submitEmail"
  /\ calls[2].op = "trackEvent"

====
